---- MODULE Spec2Model ----
(***************************************************************************)
(* Model of the conversation core of bubbleAI:                             *)
(*   - the tag detection of the SIMPLE handler (handler.ts 280-325),       *)
(*   - the routing loop runAutonomousAgent (handler.ts 19-343),            *)
(*   - the message state of the useChat hook: handleSendMessage,           *)
(*     fetchMessages and the single-flight latch (part_001).               *)
(* Text is a sequence of lexemes: a control tag, a blank, a line break or  *)
(* a word is one element, so that the regular expressions of the handler   *)
(* are computed lexeme by lexeme the way the regex engine computes them    *)
(* character by character.                                                 *)
(***************************************************************************)
EXTENDS Integers, Sequences, FiniteSets, TLC

VARIABLES
    \* ---- tag detection as a pure function (SpecTag)
    tText,          \* generatedThisLoop handed to the tag detection
    tPrompt,        \* the turn's original prompt
    tOut,           \* the detection's result, Pending before it ran
    \* ---- runAutonomousAgent (Spec)
    pc,             \* position in runAutonomousAgent
    routing,        \* routing.action / routing.parameters.prompt
    currentAction,
    currentPrompt,
    loopCount,
    finalResponseText,
    generatedThisLoop,
    metadataPayload,
    streamed,       \* chunks received from the stream being consumed
    sink,           \* every chunk handed to onStreamChunk, in order
    calls,          \* backend calls issued, in order
    handlerRuns,    \* handlers entered, in order
    failedAt,       \* the call that failed, "none" if none did
    result,         \* the value the promise settles with
    \* ---- the useChat hook (SpecChat)
    messages,       \* the message view (useState)
    isSendingRef,   \* the single-flight latch
    isLoading,
    activeChat,     \* id of the active chat, "null" if none
    activeChatIdRef,
    db,             \* the persisted messages of every chat, in order
    nextId,         \* next id the persistence layer assigns
    clock,          \* Date.now()
    fetches,        \* getMessages calls whose response has not landed
    sends,          \* the handleSendMessage calls
    timers,         \* pending setTimeout callbacks that release the latch
    selects,        \* chat selections made so far
    toasts,         \* notifications issued by addToast
    \* ---- the hook's fire-and-forget calls (SpecBackground)
    background,     \* background promises that have not settled
    warnings,       \* rejections a .catch handler has logged
    unhandled,      \* rejections that no handler has taken
    named,          \* chats whose name is still the text of their first message
    \* ---- ResearchService.deepResearch (SpecResearch)
    research        \* one call of deepResearch: position, locals, events, result

tagVars == <<tText, tPrompt, tOut>>
agentVars == <<pc, routing, currentAction, currentPrompt, loopCount,
               finalResponseText, generatedThisLoop, metadataPayload,
               streamed, sink, calls, handlerRuns, failedAt, result>>
chatVars == <<messages, isSendingRef, isLoading, activeChat, activeChatIdRef,
              db, nextId, clock, fetches, sends, timers, selects, toasts>>
bgVars == <<background, warnings, unhandled, named>>
researchVars == <<research>>
vars == <<tagVars, agentVars, chatVars, bgVars, researchVars>>

(***************************************************************************)
(* Bounds                                                                  *)
(***************************************************************************)
MaxChunks == 3      \* fragments of a text handed to the tag detection
MaxStream == 2      \* chunks of one generation stream
MaxSends == 2       \* handleSendMessage calls that get past the file reading (SpecLatch)
MaxTimers == 2      \* release timers pending at a time
MaxFetches == 1     \* getMessages calls in flight at a time
MaxSelects == 3     \* setActiveChat calls

(***************************************************************************)
(* Lexemes                                                                 *)
(***************************************************************************)
Min(S) == CHOOSE x \in S : \A y \in S : x <= y
Max(S) == CHOOSE x \in S : \A y \in S : x >= y

IsNL(tok) == tok = "nl"
IsWS(tok) == tok \in {"sp", "nl"}

\* the i flag of /<SEARCH>deep\s+(.*?)<\/SEARCH>/i
Fold(tok) ==
    CASE tok = "DEEP" -> "deep"
      [] tok = "<search>" -> "<SEARCH>"
      [] tok = "</search>" -> "</SEARCH>"
      [] OTHER -> tok

\* '.' matches every character but a line terminator
DotRun(t, i, j) == \A k \in i..j : ~IsNL(t[k])

NoMatch == [found |-> FALSE, hasGroup |-> FALSE, group |-> <<>>]

\* String.prototype.match with /open(.*?)close/: leftmost start, then the
\* shortest payload
MatchPair(t, open, close) ==
    LET Ends(i) == {j \in (i + 1)..Len(t) : t[j] = close /\ DotRun(t, i + 1, j - 1)}
        starts == {i \in 1..Len(t) : t[i] = open /\ Ends(i) # {}}
    IN  IF starts = {} THEN NoMatch
        ELSE LET i == Min(starts)
                 j == Min(Ends(i))
             IN  [found |-> TRUE, hasGroup |-> TRUE, group |-> SubSeq(t, i + 1, j - 1)]

\* /<THINK>/ : no capture group, match[1] is undefined
MatchBare(t, open) ==
    IF \E i \in 1..Len(t) : t[i] = open
    THEN [found |-> TRUE, hasGroup |-> FALSE, group |-> <<>>]
    ELSE NoMatch

\* end of the whitespace run that starts at k (\s+ is greedy)
RECURSIVE WsEnd(_, _)
WsEnd(t, k) == IF k + 1 <= Len(t) /\ IsWS(t[k + 1]) THEN WsEnd(t, k + 1) ELSE k

\* a slip: the capture group opened before the cue, /<SEARCH>(deep\s+.*?)<\/SEARCH>/i
MatchDeepCue_KeepsCue(t) ==
    LET m == MatchPair(t, "<SEARCH>", "</SEARCH>")
    IN  IF /\ m.found
           /\ Len(m.group) >= 2
           /\ Fold(m.group[1]) = "deep"
           /\ IsWS(m.group[2])
        THEN m
        ELSE NoMatch

\* /<SEARCH>deep\s+(.*?)<\/SEARCH>/i
MatchDeepCue(t) ==
    LET Cue(i) == /\ i + 2 <= Len(t)
                  /\ Fold(t[i]) = "<SEARCH>"
                  /\ Fold(t[i + 1]) = "deep"
                  /\ IsWS(t[i + 2])
        Ends(i) == LET k == WsEnd(t, i + 2)
                   IN  {j \in (k + 1)..Len(t) :
                          Fold(t[j]) = "</SEARCH>" /\ DotRun(t, k + 1, j - 1)}
        starts == {i \in 1..Len(t) : Cue(i) /\ Ends(i) # {}}
    IN  IF starts = {} THEN NoMatch
        ELSE LET i == Min(starts)
                 k == WsEnd(t, i + 2)
                 j == Min(Ends(i))
             IN  [found |-> TRUE, hasGroup |-> TRUE, group |-> SubSeq(t, k + 1, j - 1)]

\* a || b on match results
OrElse(a, b) == IF a.found THEN a ELSE b

\* String.prototype.trim
RECURSIVE TrimLeft(_)
TrimLeft(s) == IF s # <<>> /\ IsWS(Head(s)) THEN TrimLeft(Tail(s)) ELSE s
RECURSIVE TrimRight(_)
TrimRight(s) ==
    IF s # <<>> /\ IsWS(s[Len(s)]) THEN TrimRight(SubSeq(s, 1, Len(s) - 1)) ELSE s
Trim(s) == TrimRight(TrimLeft(s))

\* a JavaScript string is truthy when it is defined and not empty
Truthy(m) == m.hasGroup /\ m.group # <<>>

NoTag == [kind |-> "NONE", prompt |-> <<>>, imageParam |-> <<>>]

\* the match computed for each kind (lines 281-287)
MatchOf(kind, g) ==
    CASE kind = "SEARCH" -> MatchPair(g, "<SEARCH>", "</SEARCH>")
      [] kind = "DEEP_SEARCH" -> OrElse(MatchPair(g, "<DEEP>", "</DEEP>"), MatchDeepCue(g))
      [] kind = "THINK" -> OrElse(MatchPair(g, "<THINK>", "</THINK>"), MatchBare(g, "<THINK>"))
      [] kind = "IMAGE" -> MatchPair(g, "<IMAGE>", "</IMAGE>")
      [] kind = "PROJECT" -> MatchPair(g, "<PROJECT>", "</PROJECT>")
      [] kind = "CANVAS" -> MatchPair(g, "<CANVAS>", "</CANVAS>")
      [] kind = "STUDY" -> MatchPair(g, "<STUDY>", "</STUDY>")

\* a plausible slip: the plain search test placed before the deep test,
\* and the image test before the think test
TagOrder_Swapped == <<"SEARCH", "DEEP_SEARCH", "IMAGE", "THINK", "PROJECT", "CANVAS", "STUDY">>

\* the order of the if (...) { ...; continue; } statements (lines 289-325)
TagOrder == <<"DEEP_SEARCH", "SEARCH", "THINK", "IMAGE", "PROJECT", "CANVAS", "STUDY">>

\* a slip: currentPrompt = thinkMatch[1].trim() without the test of thinkMatch[1]
PromptOf_NoFallback(kind, m, prompt) ==
    IF kind = "THINK" THEN Trim(m.group) ELSE m.group

\* the prompt a branch assigns to currentPrompt
PromptOf(kind, m, prompt) ==
    IF kind = "THINK"
    THEN (IF Truthy(m) THEN Trim(m.group) ELSE prompt)
    ELSE m.group

\* Tag Detection: the first branch whose match is not null wins
TagDetection(g, prompt) ==
    LET hits == {i \in 1..Len(TagOrder) : MatchOf(TagOrder[i], g).found}
    IN  IF hits = {} THEN NoTag
        ELSE LET kind == TagOrder[Min(hits)]
                 m == MatchOf(kind, g)
             IN  [kind |-> kind,
                  prompt |-> PromptOf(kind, m, prompt),
                  imageParam |-> IF kind = "IMAGE" THEN m.group ELSE <<>>]

(***************************************************************************)
(* Texts handed to the tag detection: every concatenation of at most       *)
(* MaxChunks fragments. A fragment is a whole marker or a single lexeme,   *)
(* so broken, nested and multi-line markers are among the texts.           *)
(***************************************************************************)
Markers ==
    { <<"<SEARCH>", "q", "</SEARCH>">>,
      <<"<DEEP>", "d", "</DEEP>">>,
      <<"<SEARCH>", "deep", "sp", "r", "</SEARCH>">>,
      <<"<SEARCH>", "DEEP", "nl", "sp", "R", "</SEARCH>">>,
      <<"<THINK>">>,
      <<"<THINK>", "t", "</THINK>">>,
      <<"<THINK>", "sp", "</THINK>">>,
      <<"<IMAGE>", "p", "</IMAGE>">>,
      <<"<PROJECT>", "j", "</PROJECT>">>,
      <<"<CANVAS>", "c", "</CANVAS>">>,
      <<"<STUDY>", "s", "</STUDY>">> }

Lexemes ==
    { <<"a">>, <<"sp">>, <<"nl">>, <<"deep">>,
      <<"<SEARCH>">>, <<"</SEARCH>">>, <<"</THINK>">>,
      <<"<IMAGE>">>, <<"</IMAGE>">> }

Fragments == Markers \cup Lexemes

RECURSIVE Concats(_, _)
Concats(F, n) ==
    IF n = 0 THEN {<<>>}
    ELSE LET shorter == Concats(F, n - 1)
         IN  shorter \cup {s \o f : s \in shorter, f \in F}

Prompts == {<<"P">>}
Pending == [kind |-> "PENDING", prompt |-> <<>>, imageParam |-> <<>>]

InitTag ==
    /\ tText \in Concats(Fragments, MaxChunks)
    /\ tPrompt \in Prompts
    /\ tOut = Pending

\* the tag detection applied to the text
Detect ==
    /\ tOut = Pending
    /\ tOut' = TagDetection(tText, tPrompt)
    /\ UNCHANGED <<tText, tPrompt>>

(***************************************************************************)
(* runAutonomousAgent                                                      *)
(***************************************************************************)
MAX_LOOPS == 2

ActionKinds == {"SIMPLE", "SEARCH", "DEEP_SEARCH", "THINK", "IMAGE", "PROJECT", "CANVAS", "STUDY"}

UserPrompt == <<"P">>       \* input.prompt
ChatId == "chat"            \* input.chat.id

\* a generation chunk: chunk.text and candidates[0].groundingMetadata.groundingChunks
Chunk(t, g) == [text |-> t, grounding |-> g]

\* what the generation backend may stream to the SIMPLE handler: whole
\* markers, a marker whose payload runs over two lines, the two halves of a
\* marker cut by a chunk boundary, plain text
SimpleChunks ==
    { Chunk(f, <<>>) :
        f \in { <<"<SEARCH>", "q", "</SEARCH>">>,
                <<"<SEARCH>", "deep", "sp", "r", "</SEARCH>">>,
                <<"<THINK>">>,
                <<"<THINK>", "sp", "</THINK>">>,
                <<"<IMAGE>", "p", "</IMAGE>">>,
                <<"<PROJECT>", "j", "</PROJECT>">>,
                <<"<CANVAS>", "c", "</CANVAS>">>,
                <<"<STUDY>", "s", "</STUDY>">>,
                <<"<IMAGE>", "p", "nl", "p", "</IMAGE>">>,
                <<"<IMAGE>", "p">>, <<"</IMAGE>">>,
                <<"a">>, <<"w50">> } }
    \cup { Chunk(<<"b">>, <<"g1">>), Chunk(<<>>, <<"g0">>) }

\* what it may stream to the other streaming handlers
OtherChunks ==
    { Chunk(<<"x">>, <<>>), Chunk(<<"y">>, <<"g2">>), Chunk(<<>>, <<"g3">>),
      Chunk(<<"<SEARCH>", "q", "</SEARCH>">>, <<>>) }

\* number of characters of a lexeme ("w50" stands for a run of 50 characters)
CharLen(tok) ==
    CASE tok = "w50" -> 50
      [] tok \in {"<SEARCH>", "<CANVAS>"} -> 8
      [] tok \in {"</SEARCH>", "</CANVAS>", "<PROJECT>"} -> 9
      [] tok = "</PROJECT>" -> 10
      [] tok \in {"<THINK>", "<IMAGE>", "<STUDY>"} -> 7
      [] tok \in {"</THINK>", "</IMAGE>", "</STUDY>"} -> 8
      [] tok = "<DEEP>" -> 6
      [] tok = "</DEEP>" -> 7
      [] tok \in {"deep", "DEEP"} -> 4
      [] OTHER -> 1

RECURSIVE Length(_)
Length(s) == IF s = <<>> THEN 0 ELSE CharLen(Head(s)) + Length(Tail(s))

\* the switch: a case label per terminal kind, 'SIMPLE' and default together
Dispatch(a) == IF a \in ActionKinds \ {"SIMPLE"} THEN a ELSE "SIMPLE"

\* the first onStreamChunk call of a handler, <<>> if it makes none
EntryChunk(kind, text) ==
    CASE kind = "SEARCH" -> <<[type |-> "text", text |-> <<"[Searching the web...]">>]>>
      [] kind = "DEEP_SEARCH" -> <<[type |-> "text", text |-> <<"[Deep Researching...]">>]>>
      [] kind = "THINK" -> <<[type |-> "text", text |-> <<"[Thinking...]">>]>>
      [] kind = "IMAGE" -> <<[type |-> "image_generation_start", text |-> text]>>
      [] kind = "PROJECT" -> <<[type |-> "text", text |-> <<"[Building project structure...]">>]>>
      [] kind = "STUDY" -> <<[type |-> "text", text |-> <<"[Creating study plan...]">>]>>
      [] OTHER -> <<>>

\* a slip: the usage counter is incremented at the head of every streaming
\* handler
EntryPc_CountAll(kind) ==
    CASE kind = "DEEP_SEARCH" -> "research"
      [] kind = "IMAGE" -> "image"
      [] kind = "PROJECT" -> "project"
      [] OTHER -> "count"


\* the first await of a handler
EntryPc(kind) ==
    CASE kind = "DEEP_SEARCH" -> "research"
      [] kind = "THINK" -> "count"
      [] kind = "IMAGE" -> "image"
      [] kind = "PROJECT" -> "project"
      [] OTHER -> "gen"

NoMeta == [hasGrounding |-> FALSE, groundingMetadata |-> <<>>, memoryToCreate |-> FALSE]

\* { project_id, chat_id, sender: 'ai', text, ...metadataPayload }
AiMessage(text, meta) ==
    [chat_id |-> ChatId, sender |-> "ai", text |-> text,
     image_base64 |-> "none", imageStatus |-> "none",
     hasGrounding |-> meta.hasGrounding,
     groundingMetadata |-> meta.groundingMetadata,
     memoryToCreate |-> meta.memoryToCreate]

Resolved(msg) == [status |-> "resolved", messages |-> <<msg>>]

\* the handler being run
CurrentHandler == IF handlerRuns = <<>> THEN "none" ELSE handlerRuns[Len(handlerRuns)]

InitAgent ==
    /\ pc = "route"
    /\ routing = [action |-> "none", prompt |-> <<>>]
    /\ currentAction = "none"
    /\ currentPrompt = <<>>
    /\ loopCount = 0
    /\ finalResponseText = <<>>
    /\ generatedThisLoop = <<>>
    /\ metadataPayload = NoMeta
    /\ streamed = <<>>
    /\ sink = <<>>
    /\ calls = <<>>
    /\ handlerRuns = <<>>
    /\ failedAt = "none"
    /\ result = [status |-> "pending", messages |-> <<>>]

\* return { messages: [{ ..., text: finalResponseText, ...metadataPayload }] }
Return(text, meta) ==
    /\ result' = Resolved(AiMessage(text, meta))
    /\ pc' = "done"

\* a slip: the classifier is called before the try block is entered
Catch_RouteOutsideTry(at) ==
    /\ failedAt' = at
    /\ pc' = "done"
    /\ result' = IF at = "route"
                 THEN [status |-> "rejected", messages |-> <<>>]
                 ELSE Resolved(AiMessage(<<"[An error occurred: E]">>, NoMeta))

\* catch (error) { ...; return { messages: [{ ..., text: `An error occurred: ...` }] } }
Catch(at) ==
    /\ failedAt' = at
    /\ pc' = "done"
    /\ result' = Resolved(AiMessage(<<"[An error occurred: E]">>, NoMeta))

\* router.route(...) resolves
Route(a, p) ==
    /\ pc = "route"
    /\ calls' = Append(calls, <<"route", UserPrompt>>)
    /\ routing' = [action |-> a, prompt |-> p]
    /\ pc' = "context"
    /\ UNCHANGED <<currentAction, currentPrompt, loopCount, finalResponseText,
                   generatedThisLoop, metadataPayload, streamed, sink,
                   handlerRuns, failedAt, result>>

\* memory.getContext(...) resolves; the loop variables are initialised
GetContext ==
    /\ pc = "context"
    /\ calls' = Append(calls, <<"getContext", <<>>>>)
    /\ currentAction' = routing.action
    /\ currentPrompt' = UserPrompt
    /\ loopCount' = 0
    /\ finalResponseText' = <<>>
    /\ metadataPayload' = NoMeta
    /\ pc' = "loop"
    /\ UNCHANGED <<routing, generatedThisLoop, streamed, sink, handlerRuns,
                   failedAt, result>>

\* while (loopCount < MAX_LOOPS) { loopCount++; switch (currentAction) ...
\* and, when the condition is false, the return after the loop
LoopHead ==
    /\ pc = "loop"
    /\ IF loopCount < MAX_LOOPS
       THEN LET kind == Dispatch(currentAction)
            IN  /\ loopCount' = loopCount + 1
                /\ handlerRuns' = Append(handlerRuns, kind)
                /\ sink' = sink \o EntryChunk(kind, finalResponseText)
                /\ pc' = EntryPc(kind)
                /\ UNCHANGED result
       ELSE /\ Return(finalResponseText, metadataPayload)
            /\ UNCHANGED <<loopCount, handlerRuns, sink>>
    /\ UNCHANGED <<routing, currentAction, currentPrompt, finalResponseText,
                   generatedThisLoop, metadataPayload, streamed, calls, failedAt>>

\* await incrementThinkingCount(supabase, user.id)
CountThinking ==
    /\ pc = "count"
    /\ calls' = Append(calls, <<"incrementThinkingCount", <<>>>>)
    /\ pc' = "gen"
    /\ UNCHANGED <<routing, currentAction, currentPrompt, loopCount,
                   finalResponseText, generatedThisLoop, metadataPayload,
                   streamed, sink, handlerRuns, failedAt, result>>

\* await ai.models.generateContentStream(...)
OpenStream ==
    /\ pc = "gen"
    /\ calls' = Append(calls, <<"generateContentStream", currentPrompt>>)
    /\ streamed' = <<>>
    /\ generatedThisLoop' = IF CurrentHandler = "SIMPLE" THEN <<>> ELSE generatedThisLoop
    /\ pc' = "stream"
    /\ UNCHANGED <<routing, currentAction, currentPrompt, loopCount,
                   finalResponseText, metadataPayload,
                   sink, handlerRuns, failedAt, result>>

AddGrounding(meta, g) ==
    [meta EXCEPT !.hasGrounding = TRUE,
                 !.groundingMetadata = meta.groundingMetadata \o g]

\* a slip: generatedThisLoop = chunk.text, so that the tag detection sees the
\* last chunk only
StreamChunk_LastChunk(c) ==
    /\ pc = "stream"
    /\ Len(streamed) < MaxStream
    /\ streamed' = Append(streamed, c)
    /\ IF c.text # <<>>
       THEN /\ finalResponseText' = finalResponseText \o c.text
            /\ sink' = Append(sink, [type |-> "text", text |-> c.text])
            /\ generatedThisLoop' =
                 IF CurrentHandler = "SIMPLE" THEN c.text
                 ELSE generatedThisLoop
       ELSE UNCHANGED <<finalResponseText, sink, generatedThisLoop>>
    /\ metadataPayload' =
         IF /\ c.grounding # <<>>
            /\ \/ CurrentHandler = "SEARCH"
               \/ CurrentHandler = "SIMPLE" /\ c.text # <<>>
         THEN AddGrounding(metadataPayload, c.grounding)
         ELSE metadataPayload
    /\ UNCHANGED <<pc, routing, currentAction, currentPrompt, loopCount,
                   calls, handlerRuns, failedAt, result>>

\* one iteration of for await (const chunk of response)
StreamChunk(c) ==
    /\ pc = "stream"
    /\ Len(streamed) < MaxStream
    /\ streamed' = Append(streamed, c)
    /\ IF c.text # <<>>
       THEN /\ finalResponseText' = finalResponseText \o c.text
            /\ sink' = Append(sink, [type |-> "text", text |-> c.text])
            /\ generatedThisLoop' =
                 IF CurrentHandler = "SIMPLE" THEN generatedThisLoop \o c.text
                 ELSE generatedThisLoop
       ELSE UNCHANGED <<finalResponseText, sink, generatedThisLoop>>
    /\ metadataPayload' =
         IF /\ c.grounding # <<>>
            /\ \/ CurrentHandler = "SEARCH"
               \/ CurrentHandler = "SIMPLE" /\ c.text # <<>>
         THEN AddGrounding(metadataPayload, c.grounding)
         ELSE metadataPayload
    /\ UNCHANGED <<pc, routing, currentAction, currentPrompt, loopCount,
                   calls, handlerRuns, failedAt, result>>

\* a slip: the case ends with break, so the while loop goes round again
StreamReturn_Break ==
    /\ pc = "stream"
    /\ CurrentHandler # "SIMPLE"
    /\ pc' = "loop"
    /\ UNCHANGED <<routing, currentAction, currentPrompt, loopCount,
                   finalResponseText, generatedThisLoop, metadataPayload,
                   streamed, sink, calls, handlerRuns, failedAt, result>>

\* the stream of SEARCH, THINK, CANVAS or STUDY ends: the handler returns
StreamReturn ==
    /\ pc = "stream"
    /\ CurrentHandler # "SIMPLE"
    /\ Return(finalResponseText, metadataPayload)
    /\ UNCHANGED <<routing, currentAction, currentPrompt, loopCount,
                   finalResponseText, generatedThisLoop, metadataPayload,
                   streamed, sink, calls, handlerRuns, failedAt>>

\* a re-route that re-enters the default handler with the payload and a
\* fresh loop counter (the re-route written as a recursive call)
SimpleContinue_Reenter(tag) ==
    /\ currentAction' = "SIMPLE"
    /\ currentPrompt' = tag.prompt
    /\ routing' = routing
    /\ loopCount' = 0
    /\ pc' = "loop"

\* a slip: the branch sets the prompt and continues without setting
\* currentAction, so the next iteration runs the same handler again
SimpleContinue_NoAction(tag) ==
    /\ currentAction' = currentAction
    /\ currentPrompt' = tag.prompt
    /\ routing' = routing
    /\ loopCount' = loopCount
    /\ pc' = "loop"


\* currentAction = ...; currentPrompt = ...; continue;
SimpleContinue(tag) ==
    /\ currentAction' = tag.kind
    /\ currentPrompt' = tag.prompt
    /\ routing' = IF tag.kind = "IMAGE"
                  THEN [routing EXCEPT !.prompt = tag.imageParam]
                  ELSE routing
    /\ loopCount' = loopCount
    /\ pc' = "loop"

\* the SIMPLE stream ends and the tag detection finds a marker
SimpleReroute ==
    /\ pc = "stream"
    /\ CurrentHandler = "SIMPLE"
    /\ LET tag == TagDetection(generatedThisLoop, UserPrompt)
       IN  /\ tag.kind # "NONE"
           /\ SimpleContinue(tag)
    /\ UNCHANGED <<finalResponseText, generatedThisLoop, metadataPayload,
                   streamed, sink, calls, handlerRuns, failedAt, result>>

\* a slip: generatedThisLoop.length >= 50
SimpleReturn_AtLeast50 ==
    /\ pc = "stream"
    /\ CurrentHandler = "SIMPLE"
    /\ TagDetection(generatedThisLoop, UserPrompt).kind = "NONE"
    /\ metadataPayload' =
         IF Length(generatedThisLoop) >= 50
         THEN [metadataPayload EXCEPT !.memoryToCreate = TRUE]
         ELSE metadataPayload
    /\ Return(finalResponseText, metadataPayload')
    /\ UNCHANGED <<routing, currentAction, currentPrompt, loopCount,
                   finalResponseText, generatedThisLoop, streamed, sink,
                   calls, handlerRuns, failedAt>>


\* the SIMPLE stream ends and no marker is found
SimpleReturn ==
    /\ pc = "stream"
    /\ CurrentHandler = "SIMPLE"
    /\ TagDetection(generatedThisLoop, UserPrompt).kind = "NONE"
    /\ metadataPayload' =
         IF Length(generatedThisLoop) > 50
         THEN [metadataPayload EXCEPT !.memoryToCreate = TRUE]
         ELSE metadataPayload
    /\ Return(finalResponseText, metadataPayload')
    /\ UNCHANGED <<routing, currentAction, currentPrompt, loopCount,
                   finalResponseText, generatedThisLoop, streamed, sink,
                   calls, handlerRuns, failedAt>>

\* researchService.deepResearch resolves: three progress notes, then the answer
ResearchText == <<"[answer]", "[Sources:]", "[urls]">>

\* a slip: finalResponseText = "\n\n" + researchText, '=' where '+=' is meant
DeepResearch_Assign ==
    /\ pc = "research"
    /\ calls' = Append(calls, <<"deepResearch", currentPrompt>>)
    /\ finalResponseText' = <<"nl", "nl">> \o ResearchText
    /\ sink' = sink \o
         << [type |-> "text", text |-> <<"[*Searching for initial sources...*]">>],
            [type |-> "text", text |-> <<"[*Analyzing top sources...*]">>],
            [type |-> "text", text |-> <<"[*Putting it all together...*]">>],
            [type |-> "text", text |-> ResearchText] >>
    /\ Return(finalResponseText', metadataPayload)
    /\ UNCHANGED <<routing, currentAction, currentPrompt, loopCount,
                   generatedThisLoop, metadataPayload, streamed, handlerRuns,
                   failedAt>>

DeepResearch ==
    /\ pc = "research"
    /\ calls' = Append(calls, <<"deepResearch", currentPrompt>>)
    /\ finalResponseText' = finalResponseText \o <<"nl", "nl">> \o ResearchText
    /\ sink' = sink \o
         << [type |-> "text", text |-> <<"[*Searching for initial sources...*]">>],
            [type |-> "text", text |-> <<"[*Analyzing top sources...*]">>],
            [type |-> "text", text |-> <<"[*Putting it all together...*]">>],
            [type |-> "text", text |-> ResearchText] >>
    /\ Return(finalResponseText', metadataPayload)
    /\ UNCHANGED <<routing, currentAction, currentPrompt, loopCount,
                   generatedThisLoop, metadataPayload, streamed, handlerRuns,
                   failedAt>>

\* a slip: generateImage(prompt, ...), the turn's input, where imagePrompt is meant
ImagePrompt_TurnPrompt == UserPrompt

\* const imagePrompt = routing.parameters?.prompt || currentPrompt
ImagePrompt == IF routing.prompt # <<>> THEN routing.prompt ELSE currentPrompt

\* generateImage resolves
ImageOk ==
    /\ pc = "image"
    /\ calls' = Append(calls, <<"generateImage", ImagePrompt>>)
    /\ result' = Resolved([AiMessage(finalResponseText, metadataPayload)
                            EXCEPT !.image_base64 = "img", !.imageStatus = "complete"])
    /\ pc' = "done"
    /\ UNCHANGED <<routing, currentAction, currentPrompt, loopCount,
                   finalResponseText, generatedThisLoop, metadataPayload,
                   streamed, sink, handlerRuns, failedAt>>

\* a slip: no try around generateImage, so its rejection reaches the
\* catch of runAutonomousAgent
ImageFail_OuterCatch ==
    /\ pc = "image"
    /\ calls' = Append(calls, <<"generateImage", ImagePrompt>>)
    /\ Catch("image")
    /\ UNCHANGED <<routing, currentAction, currentPrompt, loopCount,
                   finalResponseText, generatedThisLoop, metadataPayload,
                   streamed, sink, handlerRuns>>

\* a slip: the annotation is handed to the sink but not put into the text
ImageFail_SinkOnly ==
    /\ pc = "image"
    /\ calls' = Append(calls, <<"generateImage", ImagePrompt>>)
    /\ finalResponseText' = finalResponseText
    /\ sink' = Append(sink, [type |-> "text", text |-> <<"[(Image generation failed: E)]">>])
    /\ failedAt' = "image"
    /\ Return(finalResponseText', metadataPayload)
    /\ UNCHANGED <<routing, currentAction, currentPrompt, loopCount,
                   generatedThisLoop, metadataPayload, streamed, handlerRuns>>

\* generateImage rejects: the inner catch
ImageFail ==
    /\ pc = "image"
    /\ calls' = Append(calls, <<"generateImage", ImagePrompt>>)
    /\ finalResponseText' = finalResponseText \o <<"[(Image generation failed: E)]">>
    /\ sink' = Append(sink, [type |-> "text", text |-> <<"[(Image generation failed: E)]">>])
    /\ failedAt' = "image"
    /\ Return(finalResponseText', metadataPayload)
    /\ UNCHANGED <<routing, currentAction, currentPrompt, loopCount,
                   generatedThisLoop, metadataPayload, streamed, handlerRuns>>

\* ai.models.generateContent resolves
ProjectMsg == <<"[I've designed the project structure]", "[json]", "[(Switch to Co-Creator mode)]">>
Project ==
    /\ pc = "project"
    /\ calls' = Append(calls, <<"generateContent", currentPrompt>>)
    /\ finalResponseText' = finalResponseText \o ProjectMsg
    /\ sink' = Append(sink, [type |-> "text", text |-> ProjectMsg])
    /\ Return(finalResponseText', metadataPayload)
    /\ UNCHANGED <<routing, currentAction, currentPrompt, loopCount,
                   generatedThisLoop, metadataPayload, streamed, handlerRuns,
                   failedAt>>

\* the awaited call rejects (for a stream: the call itself or a later chunk)
AwaitPcs == {"route", "context", "count", "gen", "stream", "research", "project"}
Fail ==
    /\ pc \in AwaitPcs
    /\ Catch(pc)
    /\ UNCHANGED <<routing, currentAction, currentPrompt, loopCount,
                   finalResponseText, generatedThisLoop, metadataPayload,
                   streamed, sink, calls, handlerRuns>>

RouteResults ==
    {[a |-> a, p |-> <<>>] : a \in ActionKinds} \cup {[a |-> "IMAGE", p |-> <<"rp">>]}

NextAgent ==
    \/ \E r \in RouteResults : Route(r.a, r.p)
    \/ GetContext
    \/ LoopHead
    \/ CountThinking
    \/ OpenStream
    \/ \E c \in (IF CurrentHandler = "SIMPLE" THEN SimpleChunks ELSE OtherChunks) :
          StreamChunk(c)
    \/ StreamReturn
    \/ SimpleReroute
    \/ SimpleReturn
    \/ DeepResearch
    \/ ImageOk
    \/ ImageFail
    \/ Project
    \/ Fail

(***************************************************************************)
(* The useChat hook: message view, history fetch, handleSendMessage        *)
(***************************************************************************)
Chats == {"A", "B"}
SendIds == DOMAIN sends

\* a message record; "of" names the logical message it stands for
\* (<<send, 0>> the user message, <<send, k>> the k-th assistant message)
Entry(id, chat, sender, text, of) ==
    [id |-> id, chat_id |-> chat, sender |-> sender, text |-> text,
     imageStatus |-> "none", of |-> of]

TempAiId(t) == <<"temp-ai", t>>
TempUserId(t) == <<"temp-user", t>>
FailedSaveId(t) == <<"failed-save", t>>
ServerId(n) == <<"srv", n>>

UserText == <<"u">>
ErrorNote == <<"[Error: E. Please try again.]">>

\* the message lists an agent may return: texts of its messages
AgentResults == { <<>>, << <<"m">> >>, << <<>> >>, << <<"m">>, <<"n">> >> }

\* the texts of the chunks of a stream, each different from the others
ChunkTexts == <<"c1", "c2", "c3", "c4">>

\* chunks that are valid JSON but no control event: an object whose type is
\* not a recognised one, and the literal null
JsonChunks ==
    { [type |-> "status", text |-> <<"{type:status}">>],
      [type |-> "null", text |-> <<"null">>] }

\* what the agent may hand to onStreamChunk after the text received so far:
\* the next chunk of text, a chunk of JSON (here in second place), or the
\* control event
SinkChunks(received) ==
    { [type |-> "text", text |-> <<ChunkTexts[k]>>] :
        k \in {Len(received) + 1} \cap (1..Len(ChunkTexts)) }
    \cup (IF Len(received) = 1 THEN JsonChunks ELSE {})
    \cup { [type |-> "image_generation_start", text |-> <<>>] }

\* JSON.parse(chunk): the value parsed, or the SyntaxError thrown; chunk.type
\* is "text" for a chunk that is not JSON
JsonParse(chunk) ==
    CASE chunk.type = "text" -> [threw |-> TRUE, isObject |-> FALSE, type |-> "undefined"]
      [] chunk.type = "null" -> [threw |-> FALSE, isObject |-> FALSE, type |-> "undefined"]
      [] OTHER -> [threw |-> FALSE, isObject |-> TRUE, type |-> chunk.type]

\* a slip: every chunk that parses is taken for an event and left out of the text
IsControlEvent_AnyJson(chunk) == ~JsonParse(chunk).threw

\* try { const event = JSON.parse(chunk);
\*       if (event.type === 'image_generation_start') { ...; return; } } catch (e) {}
\* (reading .type of null throws inside the try and is caught like the SyntaxError)
IsControlEvent(chunk) ==
    LET event == JsonParse(chunk)
    IN  /\ ~event.threw
        /\ event.isObject
        /\ event.type = "image_generation_start"

IdleSend ==
    [pc |-> "idle", chat |-> "null", t |-> 0, currentText |-> <<>>,
     savedUser |-> "none", agentMessages |-> <<>>, savedAiMessages |-> <<>>,
     stayed |-> TRUE]

InProgress(s) == sends[s].pc \notin {"idle", "done"}
Running == {s \in SendIds : InProgress(s)}

\* an exchange persisted by an earlier session
EarlierHistory ==
    << Entry(ServerId(1), "A", "user", UserText, <<0, 0>>),
       Entry(ServerId(2), "A", "ai", <<"m">>, <<0, 1>>) >>

\* the hook after construction: no chat selected, nothing in flight
InitChat(slots, stored) ==
    /\ messages = <<>>
    /\ isSendingRef = FALSE
    /\ isLoading = FALSE
    /\ activeChat = "null"
    /\ activeChatIdRef = "null"
    /\ db = [c \in Chats |-> IF c = "A" THEN stored ELSE <<>>]
    /\ nextId = Len(stored) + 1
    /\ clock = 1
    /\ fetches = {}
    /\ sends = [s \in 1..slots |-> IdleSend]
    /\ timers = 0
    /\ selects = 0
    /\ toasts = {}

\* prev.map(m => m.id === id ? ... : m); with[i] is what the entry at i
\* becomes when its id is the one looked for
MapView(prev, id, with) ==
    [i \in 1..Len(prev) |-> IF prev[i].id = id THEN with[i] ELSE prev[i]]

Ids(list) == {list[i].id : i \in 1..Len(list)}

\* setActiveChat(chat): the effects update activeChatIdRef and start
\* fetchMessages; getMessages answers with the rows stored at that time
SelectChat(c) ==
    /\ Cardinality(fetches) < MaxFetches
    /\ selects < MaxSelects
    /\ selects' = selects + 1
    /\ activeChat' = c
    /\ activeChatIdRef' = c
    /\ isLoading' = IF ~isSendingRef THEN TRUE ELSE isLoading
    /\ fetches' = fetches \cup {[chat |-> c, history |-> db[c]]}
    /\ sends' = [s \in SendIds |->
                   IF InProgress(s) /\ sends[s].chat # c
                   THEN [sends[s] EXCEPT !.stayed = FALSE]
                   ELSE sends[s]]
    /\ UNCHANGED <<messages, isSendingRef, db, nextId, clock, timers, toasts>>

\* a slip: the fetched history replaces the view
SmartMerge_HistoryOnly(prev, history, chatId) == history

\* SMART MERGE: history, then the entries of prev that are not in history
SmartMerge(prev, history, chatId) ==
    LET NotInHistory(p) == p.chat_id = chatId /\ p.id \notin Ids(history)
        optimisticMessages == SelectSeq(prev, NotInHistory)
    IN  IF Len(optimisticMessages) > 0 THEN history \o optimisticMessages ELSE history

\* getMessages resolves
FetchLand(f) ==
    /\ f \in fetches
    /\ fetches' = fetches \ {f}
    /\ messages' = IF activeChatIdRef = f.chat
                   THEN SmartMerge(messages, f.history, f.chat)
                   ELSE messages
    /\ isLoading' = FALSE
    /\ UNCHANGED <<isSendingRef, activeChat, activeChatIdRef, db, nextId, clock,
                   sends, timers, selects, toasts>>

\* getMessages rejects
FetchFail(f) ==
    /\ f \in fetches
    /\ fetches' = fetches \ {f}
    /\ isLoading' = FALSE
    /\ UNCHANGED <<messages, isSendingRef, activeChat, activeChatIdRef, db, nextId,
                   clock, sends, timers, selects, toasts>>

\* a slip: the lock is released only at the end of the try block, so the
\* catch path leaves without scheduling the release
Finally_NoTimerOnThrow(s, rec, thrown) ==
    /\ isLoading' = FALSE
    /\ timers' = IF thrown THEN timers ELSE timers + 1
    /\ sends' = [sends EXCEPT ![s] = [rec EXCEPT !.pc = "done"]]

\* finally { setIsLoading(false); setTimeout(() => isSendingRef.current = false, 500) }
Finally(s, rec, thrown) ==
    /\ isLoading' = FALSE
    /\ timers' = timers + 1
    /\ sends' = [sends EXCEPT ![s] = [rec EXCEPT !.pc = "done"]]

\* a slip: only the user's message is shown at once; the assistant
\* placeholder is left to the first chunk
OptimisticUpdate_UserOnly(s, rec) ==
    /\ messages' = Append(messages, Entry(TempUserId(rec.t), rec.chat, "user", UserText, <<s, 0>>))
    /\ isLoading' = TRUE
    /\ clock' = clock + 1
    /\ sends' = [sends EXCEPT ![s] = [rec EXCEPT !.pc = "saveUser"]]

\* setMessages(prev => [...prev, optimisticUserMessage, tempAiMessage]); setIsLoading(true)
\* (the clock moves on while the call that follows is awaited)
OptimisticUpdate(s, rec) ==
    /\ messages' = messages \o
         << Entry(TempUserId(rec.t), rec.chat, "user", UserText, <<s, 0>>),
            Entry(TempAiId(rec.t), rec.chat, "ai", <<>>, <<s, 0 - 1>>) >>
    /\ isLoading' = TRUE
    /\ clock' = clock + 1
    /\ sends' = [sends EXCEPT ![s] = [rec EXCEPT !.pc = "saveUser"]]

\* ChatInput.handleSubmit: if ((text.trim() || attachedFiles.length > 0) && !isLoading),
\* for a submission with text; it then calls onSendMessage and clears the box
InputAccepts == ~isLoading


FreeSlot == Min({s \in SendIds : sends[s].pc = "idle"})

\* if (isSendingRef.current) return { messages: [] }
Accepts == ~isSendingRef

\* handleSendMessage(text, files) is called for the active chat
Submit(files) ==
    /\ activeChat # "null"
    /\ IF ~Accepts
       THEN UNCHANGED <<messages, isSendingRef, isLoading, clock, sends>>
       ELSE /\ \E s \in SendIds : sends[s].pc = "idle"
            /\ isSendingRef' = TRUE
            /\ LET rec == [IdleSend EXCEPT !.chat = activeChat, !.t = clock]
               IN  IF files
                   THEN /\ sends' = [sends EXCEPT ![FreeSlot] = [rec EXCEPT !.pc = "reading"]]
                        /\ UNCHANGED <<messages, isLoading, clock>>
                   ELSE OptimisticUpdate(FreeSlot, rec)
    /\ UNCHANGED <<activeChat, activeChatIdRef, db, nextId, fetches, timers, selects, toasts>>

\* the attached files are read
ReadOk(s) ==
    /\ sends[s].pc = "reading"
    /\ OptimisticUpdate(s, sends[s])
    /\ UNCHANGED <<isSendingRef, activeChat, activeChatIdRef, db, nextId,
                   fetches, timers, selects, toasts>>

\* reading a file fails: toast, lock released early, return { messages: [] };
\* then finally. Nothing of the call is left but its timer.
ReadFail(s) ==
    /\ sends[s].pc = "reading"
    /\ timers < MaxTimers
    /\ toasts' = toasts \cup {"Failed to read the attached file(s)."}
    /\ isSendingRef' = FALSE
    /\ isLoading' = FALSE
    /\ timers' = timers + 1
    /\ sends' = [sends EXCEPT ![s] = IdleSend]
    /\ UNCHANGED <<messages, activeChat, activeChatIdRef, db, nextId, clock, fetches,
                   selects>>

\* the persistence layer stores a row and assigns its id
Store(chat, sender, text, of) ==
    /\ db' = [db EXCEPT ![chat] = Append(@, Entry(ServerId(nextId), chat, sender, text, of))]
    /\ nextId' = nextId + 1

\* addMessage(userMessageData): the row is stored
SaveUserStore(s) ==
    /\ sends[s].pc = "saveUser"
    /\ Store(sends[s].chat, "user", UserText, <<s, 0>>)
    /\ sends' = [sends EXCEPT ![s].pc = "saveUserReply",
                              ![s].savedUser = ServerId(nextId)]
    /\ UNCHANGED <<messages, isSendingRef, isLoading, activeChat, activeChatIdRef,
                   clock, fetches, timers, selects, toasts>>

\* addMessage resolves: the optimistic message is replaced by the stored one
SaveUserReply(s) ==
    /\ sends[s].pc = "saveUserReply"
    /\ LET saved == Entry(sends[s].savedUser, sends[s].chat, "user", UserText, <<s, 0>>)
       IN  messages' = MapView(messages, TempUserId(sends[s].t),
                               [i \in 1..Len(messages) |-> saved])
    /\ sends' = [sends EXCEPT ![s].pc = "agent"]
    /\ UNCHANGED <<isSendingRef, isLoading, activeChat, activeChatIdRef, db, nextId,
                   clock, fetches, timers, selects, toasts>>

\* addMessage rejects: savedUserMessage = optimisticUserMessage
SaveUserFail(s) ==
    /\ sends[s].pc = "saveUser"
    /\ sends' = [sends EXCEPT ![s].pc = "agent", ![s].savedUser = TempUserId(sends[s].t)]
    /\ UNCHANGED <<messages, isSendingRef, isLoading, activeChat, activeChatIdRef,
                   db, nextId, clock, fetches, timers, selects, toasts>>

\* a slip: the chunk replaces the text shown instead of extending it
OnStreamChunk_Replace(s, chunk) ==
    /\ sends[s].pc = "agent"
    /\ ~IsControlEvent(chunk) => Len(sends[s].currentText) < MaxStream
    /\ LET text == IF IsControlEvent(chunk)
                   THEN sends[s].currentText
                   ELSE sends[s].currentText \o chunk.text
           Put(m) == IF IsControlEvent(chunk)
                     THEN [m EXCEPT !.text = text, !.imageStatus = "generating"]
                     ELSE [m EXCEPT !.text = chunk.text]
       IN  /\ messages' = MapView(messages, TempAiId(sends[s].t),
                                  [i \in 1..Len(messages) |-> Put(messages[i])])
           /\ sends' = [sends EXCEPT ![s].currentText = text]
    /\ UNCHANGED <<isSendingRef, isLoading, activeChat, activeChatIdRef, db, nextId,
                   clock, fetches, timers, selects, toasts>>

\* onStreamChunk(chunk)
OnStreamChunk(s, chunk) ==
    /\ sends[s].pc = "agent"
    /\ ~IsControlEvent(chunk) => Len(sends[s].currentText) < MaxStream
    /\ LET text == IF IsControlEvent(chunk)
                   THEN sends[s].currentText
                   ELSE sends[s].currentText \o chunk.text
           Put(m) == IF IsControlEvent(chunk)
                     THEN [m EXCEPT !.text = text, !.imageStatus = "generating"]
                     ELSE [m EXCEPT !.text = text]
       IN  /\ messages' = MapView(messages, TempAiId(sends[s].t),
                                  [i \in 1..Len(messages) |-> Put(messages[i])])
           /\ sends' = [sends EXCEPT ![s].currentText = text]
    /\ UNCHANGED <<isSendingRef, isLoading, activeChat, activeChatIdRef, db, nextId,
                   clock, fetches, timers, selects, toasts>>

ReplaceAt(list, i, repl) == SubSeq(list, 1, i - 1) \o repl \o SubSeq(list, i + 1, Len(list))

\* a slip: the fallback branch removes the placeholder and pushes nothing
Reconcile_NoPush(prev, tempId, savedAiMessages) ==
    LET found == {i \in 1..Len(prev) : prev[i].id = tempId}
    IN  IF found # {}
        THEN ReplaceAt(prev, Min(found), savedAiMessages)
        ELSE prev

\* a slip: without the fallback branch, the placeholder is replaced only
\* when there is something to put in its place
Reconcile_NoFallback(prev, tempId, savedAiMessages) ==
    LET found == {i \in 1..Len(prev) : prev[i].id = tempId}
    IN  IF found # {} /\ savedAiMessages # <<>>
        THEN ReplaceAt(prev, Min(found), savedAiMessages)
        ELSE prev \o savedAiMessages


\* the last setMessages of the try block (lines 332-356), without a plan
Reconcile(prev, tempId, savedAiMessages) ==
    LET found == {i \in 1..Len(prev) : prev[i].id = tempId}
    IN  IF found # {}
        THEN ReplaceAt(prev, Min(found), savedAiMessages)
        ELSE LET NotTemp(m) == m.id # tempId
             IN  SelectSeq(prev, NotTemp) \o savedAiMessages

\* the end of the try block, then finally
Finish(s, rec) ==
    /\ messages' = Reconcile(messages, TempAiId(rec.t), rec.savedAiMessages)
    /\ Finally(s, rec, FALSE)

\* runAgent resolves with its messages
AgentReturn(s, msgs) ==
    /\ sends[s].pc = "agent"
    /\ LET rec == [sends[s] EXCEPT !.agentMessages = msgs]
       IN  IF msgs = <<>>
           THEN Finish(s, rec)
           ELSE /\ sends' = [sends EXCEPT ![s] = [rec EXCEPT !.pc = "saveAi"]]
                /\ UNCHANGED <<messages, isLoading, timers>>
    /\ UNCHANGED <<isSendingRef, activeChat, activeChatIdRef, db, nextId, clock,
                   fetches, selects, toasts>>

\* runAgent rejects: the catch block, then finally
AgentThrow(s) ==
    /\ sends[s].pc = "agent"
    /\ toasts' = toasts \cup {"E"}
    /\ LET Err(m) == [m EXCEPT !.text = ErrorNote, !.sender = "ai"]
       IN  messages' = MapView(messages, TempAiId(sends[s].t),
                               [i \in 1..Len(messages) |-> Err(messages[i])])
    /\ Finally(s, sends[s], TRUE)
    /\ UNCHANGED <<isSendingRef, activeChat, activeChatIdRef, db, nextId, clock,
                   fetches, selects>>

\* the message of the loop for (const messageContent of agentMessages)
Index(rec) == Len(rec.savedAiMessages) + 1
\* const finalContent = messageContent.text || currentText
FinalContent(rec) ==
    IF rec.agentMessages[Index(rec)] # <<>> THEN rec.agentMessages[Index(rec)]
    ELSE rec.currentText

\* addMessage(... messageContent ...): the row is stored
SaveAiStore(s) ==
    /\ sends[s].pc = "saveAi"
    /\ Store(sends[s].chat, "ai", FinalContent(sends[s]), <<s, Index(sends[s])>>)
    /\ sends' = [sends EXCEPT ![s].pc = "saveAiReply"]
    /\ UNCHANGED <<messages, isSendingRef, isLoading, activeChat, activeChatIdRef,
                   clock, fetches, timers, selects, toasts>>

\* after a message of the loop: the next one, or the end of the try block
AfterSave(s, rec) ==
    IF Len(rec.savedAiMessages) = Len(rec.agentMessages)
    THEN Finish(s, rec)
    ELSE /\ sends' = [sends EXCEPT ![s] = [rec EXCEPT !.pc = "saveAi"]]
         /\ UNCHANGED <<messages, isLoading, timers>>

\* addMessage resolves: savedAiMessages.push(savedAiMessage)
SaveAiReply(s) ==
    /\ sends[s].pc = "saveAiReply"
    /\ LET chat == sends[s].chat
           saved == db[chat][Max({i \in 1..Len(db[chat]) :
                                    db[chat][i].of = <<s, Index(sends[s])>>})]
       IN  AfterSave(s, [sends[s] EXCEPT !.savedAiMessages = Append(@, saved)])
    /\ UNCHANGED <<isSendingRef, activeChat, activeChatIdRef, db, nextId, clock,
                   fetches, selects, toasts>>

\* addMessage rejects: a local-only fallback message and a toast
SaveAiFail(s, now) ==
    /\ sends[s].pc = "saveAi"
    /\ clock' = now
    /\ toasts' = toasts \cup {"Failed to save AI response to history, but here it is."}
    /\ LET fallbackMsg == Entry(FailedSaveId(now), sends[s].chat, "ai",
                                FinalContent(sends[s]), <<s, Index(sends[s])>>)
       IN  AfterSave(s, [sends[s] EXCEPT !.savedAiMessages = Append(@, fallbackMsg)])
    /\ UNCHANGED <<isSendingRef, activeChat, activeChatIdRef, db, nextId, fetches,
                   selects>>

\* a timer set by finally fires, 500 ms later
ReleaseTimer ==
    /\ timers > 0
    /\ isSendingRef' = FALSE
    /\ timers' = timers - 1
    /\ UNCHANGED <<messages, isLoading, activeChat, activeChatIdRef, db, nextId,
                   clock, fetches, sends, selects, toasts>>

\* one turn followed through the view with every input
NextChat ==
    \/ \E c \in Chats : SelectChat(c)
    \/ \E f \in fetches : FetchLand(f)
    \/ \E f \in fetches : FetchFail(f)
    \/ \E files \in BOOLEAN : Submit(files)
    \/ \E s \in SendIds : ReadOk(s)
    \/ \E s \in SendIds : ReadFail(s)
    \/ \E s \in SendIds : SaveUserStore(s)
    \/ \E s \in SendIds : SaveUserReply(s)
    \/ \E s \in SendIds : SaveUserFail(s)
    \/ \E s \in SendIds : \E chunk \in SinkChunks(sends[s].currentText) :
          OnStreamChunk(s, chunk)
    \/ \E s \in SendIds : \E msgs \in AgentResults : AgentReturn(s, msgs)
    \/ \E s \in SendIds : AgentThrow(s)
    \/ \E s \in SendIds : SaveAiStore(s)
    \/ \E s \in SendIds : SaveAiReply(s)
    \/ \E s \in SendIds : \E now \in {clock, clock + 1} : SaveAiFail(s, now)
    \/ ReleaseTimer

\* several calls of handleSendMessage, each with one shape of agent result;
\* the exits of the call are all here (addMessage of the user message is
\* caught where it is awaited and is no exit)
NextLatch ==
    \/ \E c \in Chats : SelectChat(c)
    \/ \E f \in fetches : FetchLand(f)
    \/ \E files \in BOOLEAN : Submit(files)
    \/ \E s \in SendIds : ReadOk(s)
    \/ \E s \in SendIds : ReadFail(s)
    \/ \E s \in SendIds : SaveUserStore(s)
    \/ \E s \in SendIds : SaveUserReply(s)
    \/ \E s \in SendIds : AgentReturn(s, << <<"m">> >>)
    \/ \E s \in SendIds : AgentThrow(s)
    \/ \E s \in SendIds : SaveAiStore(s)
    \/ \E s \in SendIds : SaveAiReply(s)
    \/ \E s \in SendIds : SaveAiFail(s, clock)
    \/ ReleaseTimer

ChatIdle ==
    /\ messages = <<>>
    /\ isSendingRef = FALSE
    /\ isLoading = FALSE
    /\ activeChat = "null"
    /\ activeChatIdRef = "null"
    /\ db = <<>>
    /\ nextId = 1
    /\ clock = 1
    /\ fetches = {}
    /\ sends = <<>>
    /\ timers = 0
    /\ selects = 0
    /\ toasts = {}

TagIdle == tText = <<>> /\ tPrompt = <<>> /\ tOut = Pending

(***************************************************************************)
(* ResearchService.deepResearch                                            *)
(***************************************************************************)
\* extractURLs(searchResults, 5)
MaxSources == 5
\* most URL matches a search result holds
MaxFound == 6

\* the matches of urlRegex in a search result, in order: performWebSearch
\* answers with five 'Source: https://...' lines, and the query, which is
\* copied into the result, may bring further matches
Urls == {"u", "v"}
FoundLists == UNION { [1..n -> Urls] : n \in MaxSources..MaxFound }

\* matches.slice(0, count).map(m => m[1])
ExtractURLs(found, count) == SubSeq(found, 1, Min({Len(found), count}))

ProgressNotes ==
    << "Searching for initial sources...", "Analyzing top sources...",
       "Putting it all together..." >>
Progress(k) == [kind |-> "progress", what |-> ProgressNotes[k]]
CallOf(name, arg) == [kind |-> "call", what |-> <<name, arg>>]

\* r.status === 'fulfilled' ? `Source: ${urls[i]}\nContent: ${r.value}`
\*                          : `[Failed to scrape ${urls[i]}]`
SectionText(url, status) ==
    IF status = "fulfilled"
    THEN <<"Source:", url, "nl", "Content:", "[content]">>
    ELSE <<"[Failed to scrape", url, "]">>

\* deepContent.join('\n\n---\n\n')
RECURSIVE JoinSections(_)
JoinSections(parts) ==
    IF parts = <<>> THEN <<>>
    ELSE IF Len(parts) = 1 THEN parts[1]
    ELSE parts[1] \o <<"---">> \o JoinSections(Tail(parts))

\* formatDeepResults(deepContent)
FormatDeepResults(deepContent) == <<"[Here is a comprehensive summary]">> \o JoinSections(deepContent)

ResearchIdle ==
    research = [pc |-> "idle", found |-> <<>>, urls |-> <<>>, settled |-> <<>>,
                log |-> <<>>, status |-> "pending", answer |-> <<>>, sources |-> <<>>]

\* deepResearch(query, onProgress) is called
InitResearch ==
    research = [pc |-> "start", found |-> <<>>, urls |-> <<>>, settled |-> <<>>,
                log |-> <<>>, status |-> "pending", answer |-> <<>>, sources |-> <<>>]

\* PHASE 1: onProgress('Searching for initial sources...'); performWebSearch(query)
SearchStart ==
    /\ research.pc = "start"
    /\ research' = [research EXCEPT
         !.pc = "search",
         !.log = @ \o <<Progress(1), CallOf("performWebSearch", "q")>>]

\* performWebSearch resolves; extractURLs; PHASE 2: onProgress('Analyzing top
\* sources...'); urls.map(url => scrapeURL(url)) starts every scrape
SearchResolve(found) ==
    /\ research.pc = "search"
    /\ LET urls == ExtractURLs(found, MaxSources)
       IN  research' = [research EXCEPT
             !.pc = "scrape",
             !.found = found,
             !.urls = urls,
             !.settled = [i \in 1..Len(urls) |-> "pending"],
             !.log = @ \o <<Progress(2)>>
                       \o [i \in 1..Len(urls) |-> CallOf("scrapeURL", urls[i])]]

\* a slip: Promise.all instead of Promise.allSettled, so that the first
\* scrape that rejects rejects deepResearch
ScrapeSettle_All(i, ok) ==
    /\ research.pc = "scrape"
    /\ i \in 1..Len(research.urls)
    /\ research.settled[i] = "pending"
    /\ research' = IF ok
                   THEN [research EXCEPT !.settled[i] = "fulfilled"]
                   ELSE [research EXCEPT !.settled[i] = "rejected",
                                         !.pc = "done", !.status = "rejected"]

\* one of the scrapeURL promises settles
ScrapeSettle(i, ok) ==
    /\ research.pc = "scrape"
    /\ i \in 1..Len(research.urls)
    /\ research.settled[i] = "pending"
    /\ research' = [research EXCEPT
         !.settled[i] = IF ok THEN "fulfilled" ELSE "rejected"]

\* Promise.allSettled resolves; PHASE 3: onProgress('Putting it all
\* together...'); formatDeepResults; return { answer, sources: urls, ... }
Synthesize ==
    /\ research.pc = "scrape"
    /\ \A i \in 1..Len(research.urls) : research.settled[i] # "pending"
    /\ LET scrapedContent ==
             [i \in 1..Len(research.urls) |->
                SectionText(research.urls[i], research.settled[i])]
       IN  research' = [research EXCEPT
             !.pc = "done",
             !.status = "resolved",
             !.log = @ \o <<Progress(3)>>,
             !.answer = FormatDeepResults(scrapedContent),
             !.sources = research.urls]

NextResearch ==
    \/ SearchStart
    \/ \E found \in FoundLists : SearchResolve(found)
    \/ \E i \in 1..MaxSources : \E ok \in BOOLEAN : ScrapeSettle(i, ok)
    \/ Synthesize


\* no background call has been made
BackgroundIdle == background = {} /\ warnings = {} /\ unhandled = {} /\ named = {}

Init == InitAgent /\ TagIdle /\ ChatIdle /\ BackgroundIdle /\ ResearchIdle
Next == NextAgent /\ UNCHANGED <<tagVars, chatVars, bgVars, researchVars>>
Spec == Init /\ [][Next]_vars

AgentIdle ==
    /\ pc = "off"
    /\ routing = [action |-> "none", prompt |-> <<>>]
    /\ currentAction = "none"
    /\ currentPrompt = <<>>
    /\ loopCount = 0
    /\ finalResponseText = <<>>
    /\ generatedThisLoop = <<>>
    /\ metadataPayload = NoMeta
    /\ streamed = <<>>
    /\ sink = <<>>
    /\ calls = <<>>
    /\ handlerRuns = <<>>
    /\ failedAt = "none"
    /\ result = [status |-> "pending", messages |-> <<>>]

InitTagSpec == InitTag /\ AgentIdle /\ ChatIdle /\ BackgroundIdle /\ ResearchIdle
NextTag == Detect /\ UNCHANGED <<agentVars, chatVars, bgVars, researchVars>>
SpecTag == InitTagSpec /\ [][NextTag]_vars

InitChatSpec == InitChat(1, EarlierHistory) /\ AgentIdle /\ TagIdle /\ BackgroundIdle /\ ResearchIdle
NextChatSpec == NextChat /\ UNCHANGED <<agentVars, tagVars, bgVars, researchVars>>
SpecChat == InitChatSpec /\ [][NextChatSpec]_vars

InitLatchSpec == InitChat(MaxSends, <<>>) /\ AgentIdle /\ TagIdle /\ BackgroundIdle /\ ResearchIdle
NextLatchSpec == NextLatch /\ UNCHANGED <<agentVars, tagVars, bgVars, researchVars>>
SpecLatch == InitLatchSpec /\ [][NextLatchSpec]_vars
\* a timer that was set fires
TimersFire == WF_vars(ReleaseTimer /\ UNCHANGED <<agentVars, tagVars, bgVars, researchVars>>)
SpecLatchFair == SpecLatch /\ TimersFire

(***************************************************************************)
(* The calls the hook makes without awaiting them: saveMemory and          *)
(* extractAndSaveMemory in handleSendMessage, generateChatTitle in the     *)
(* title effect                                                            *)
(***************************************************************************)
Task(kind, chat) == [kind |-> kind, chat |-> chat]

\* the step begins an iteration of for (const messageContent of agentMessages)
LoopEnters(s) ==
    /\ sends'[s].pc = "saveAi"
    /\ \/ sends[s].pc = "agent"
       \/ Len(sends'[s].savedAiMessages) > Len(sends[s].savedAiMessages)

\* the step leaves the loop with
\* savedUserMessage && savedAiMessages.length > 0 && savedUserMessage.id !== tempUserMsgId
ExtractDue(s) ==
    /\ sends[s].pc \in {"saveAi", "saveAiReply"}
    /\ sends'[s].pc = "done"
    /\ sends'[s].savedAiMessages # <<>>
    /\ sends[s].savedUser # "none"
    /\ sends[s].savedUser[1] # "temp-user"

\* the title effect runs (messages or activeChat has changed) and its test holds
TitleDue ==
    /\ messages' # messages \/ activeChat' # activeChat
    /\ Len(messages') = 2
    /\ activeChat' # "null"
    /\ messages'[1].sender = "user"
    /\ messages'[2].sender = "ai"
    /\ activeChat' \in named

\* the background calls a step of the hook starts; withMemory tells whether
\* the message of the loop carries a memoryToCreate list
Launch ==
    \E withMemory \in BOOLEAN :
        /\ background' = background
              \cup { Task("saveMemory", sends'[s].chat) :
                       s \in {x \in SendIds : withMemory /\ LoopEnters(x)} }
              \cup { Task("extractAndSaveMemory", sends'[s].chat) :
                       s \in {x \in SendIds : ExtractDue(x)} }
              \cup (IF TitleDue THEN {Task("generateChatTitle", activeChat')} ELSE {})
        /\ UNCHANGED <<warnings, unhandled, named>>

\* a background promise resolves. For the title: .then(title =>
\* handleUpdateChat(activeChat.id, { name: title })), whose updateDbChat
\* resolves (updated) or rejects and is caught there; setActiveChat with the
\* renamed chat starts fetchMessages again when that chat is the active one
BgResolve(task, updated) ==
    /\ task \in background
    /\ background' = background \ {task}
    /\ IF task.kind = "generateChatTitle" /\ updated
       THEN /\ named' = named \ {task.chat}
            /\ IF activeChat = task.chat
               THEN SelectChat(task.chat)
               ELSE UNCHANGED chatVars
       ELSE UNCHANGED <<named, chatVars>>
    /\ UNCHANGED <<warnings, unhandled>>

\* a background promise rejects: saveMemory(...).catch(console.warn) and
\* extractAndSaveMemory(...).catch(console.warn) log it; the chain
\* generateChatTitle(...).then(...) has no rejection handler
BgReject(task) ==
    /\ task \in background
    /\ background' = background \ {task}
    /\ IF task.kind \in {"saveMemory", "extractAndSaveMemory"}
       THEN warnings' = warnings \cup {task.kind} /\ UNCHANGED unhandled
       ELSE unhandled' = unhandled \cup {task.kind} /\ UNCHANGED warnings
    /\ UNCHANGED <<named, chatVars>>

InitBackground ==
    /\ InitChat(1, <<>>)
    /\ background = {}
    /\ warnings = {}
    /\ unhandled = {}
    /\ named = Chats
    /\ ResearchIdle
    /\ AgentIdle
    /\ TagIdle

NextBackground ==
    \/ NextLatch /\ Launch /\ UNCHANGED <<agentVars, tagVars, researchVars>>
    \/ \E task \in background : \E updated \in BOOLEAN :
          BgResolve(task, updated) /\ UNCHANGED <<agentVars, tagVars, researchVars>>
    \/ \E task \in background : BgReject(task) /\ UNCHANGED <<agentVars, tagVars, researchVars>>

SpecBackground == InitBackground /\ [][NextBackground]_vars

\* one call of deepResearch
InitResearchSpec == InitResearch /\ AgentIdle /\ TagIdle /\ ChatIdle /\ BackgroundIdle
NextResearchSpec == NextResearch /\ UNCHANGED <<agentVars, tagVars, chatVars, bgVars>>
SpecResearch == InitResearchSpec /\ [][NextResearchSpec]_vars

(***************************************************************************)
(* Claims about runAutonomousAgent (Spec)                                  *)
(***************************************************************************)

Settled == pc = "done"
ResultText == result.messages[1].text
ErrorText == <<"[An error occurred: E]">>
HandlerAwaits == {"count", "gen", "stream", "research", "project"}

\* C3: one call of runAutonomousAgent runs at most MAX_LOOPS = 2 action
\* handlers, hence at most one tag-driven re-route, and then it has returned.
C3_AtMostMaxLoopsHandlers ==
    /\ Len(handlerRuns) <= MAX_LOOPS
    /\ Len(handlerRuns) = 2 => handlerRuns[1] = "SIMPLE"
    /\ (Settled => result.status # "pending")

C3_Witness ==
    /\ Settled
    /\ handlerRuns = <<"SIMPLE", "THINK">>
    /\ result.status = "resolved"

\* C4: when a handler fails after text has been accumulated, the terminal
\* message is the accumulated text followed by the error message, and no
\* handler runs again.
C4_ErrorAppendedToAccumulated ==
    (failedAt \in HandlerAwaits /\ finalResponseText # <<>>)
        => /\ Settled
           /\ ResultText = finalResponseText \o ErrorText

\* C5: runAutonomousAgent never rejects: after any failure it has resolved
\* with exactly one assistant message of the turn's chat, and once a call
\* has failed no further handler is entered and no further call is issued.
C5_NeverRejects ==
    /\ [](/\ result.status # "rejected"
          /\ (Settled \/ failedAt # "none") =>
                /\ Settled
                /\ result.status = "resolved"
                /\ Len(result.messages) = 1
                /\ result.messages[1].chat_id = ChatId
                /\ result.messages[1].sender = "ai")
    /\ [][failedAt # "none" => UNCHANGED <<handlerRuns, calls>>]_vars

C5_Witness ==
    /\ failedAt = "stream"
    /\ result.status = "resolved"
    /\ Len(result.messages) = 1

\* C6: when route() fails the turn is not ended with an error: it goes on
\* with currentAction = SIMPLE and the original prompt.
C6_RouteFailureDefaultsToSimple ==
    failedAt = "route"
        => /\ ~(Settled /\ ResultText = ErrorText)
           /\ currentAction = "SIMPLE"
           /\ currentPrompt = UserPrompt

(***************************************************************************)
(* Claims about the tag detection (SpecTag)                                *)
(***************************************************************************)
Detected == tOut # Pending

\* a marker <NAME>payload</NAME> on one line is somewhere in the text
PairPresent(t, open, close) ==
    \E i \in 1..Len(t) : \E j \in (i + 1)..Len(t) :
        /\ t[i] = open
        /\ t[j] = close
        /\ \A k \in (i + 1)..(j - 1) : t[k] # "nl"

\* the remainders after the cue of the search markers that begin with it:
\* "deep" in any letter case, then whitespace, then the remainder on one line
CueRemainders(t) ==
    { SubSeq(t, k + 1, j - 1) :
        <<i, k, j>> \in
          { w \in (1..Len(t)) \X (1..Len(t)) \X (1..Len(t)) :
              /\ w[1] + 2 <= w[2] /\ w[2] < w[3]
              /\ t[w[1]] \in {"<SEARCH>", "<search>"}
              /\ t[w[1] + 1] \in {"deep", "DEEP"}
              /\ \A x \in (w[1] + 2)..w[2] : t[x] \in {"sp", "nl"}
              /\ t[w[2] + 1] \notin {"sp", "nl"}
              /\ t[w[3]] \in {"</SEARCH>", "</search>"}
              /\ \A x \in (w[2] + 1)..(w[3] - 1) :
                    t[x] \notin {"nl", "</SEARCH>", "</search>"} } }

DeepCuePresent(t) == CueRemainders(t) # {}

Present(kind, t) ==
    CASE kind = "DEEP_SEARCH" -> PairPresent(t, "<DEEP>", "</DEEP>") \/ DeepCuePresent(t)
      [] kind = "SEARCH" -> PairPresent(t, "<SEARCH>", "</SEARCH>")
      [] kind = "THINK" -> \E i \in 1..Len(t) : t[i] = "<THINK>"
      [] kind = "IMAGE" -> PairPresent(t, "<IMAGE>", "</IMAGE>")
      [] kind = "PROJECT" -> PairPresent(t, "<PROJECT>", "</PROJECT>")
      [] kind = "CANVAS" -> PairPresent(t, "<CANVAS>", "</CANVAS>")
      [] kind = "STUDY" -> PairPresent(t, "<STUDY>", "</STUDY>")

TagKinds == ActionKinds \ {"SIMPLE"}

Rank(kind) ==
    CASE kind = "DEEP_SEARCH" -> 1
      [] kind = "SEARCH" -> 2
      [] kind = "THINK" -> 3
      [] kind = "IMAGE" -> 4
      [] kind = "PROJECT" -> 5
      [] kind = "CANVAS" -> 6
      [] kind = "STUDY" -> 7

\* C9: when the text contains markers of several kinds, the kind chosen is
\* the one of highest priority DEEP_SEARCH > SEARCH > THINK > IMAGE > PROJECT
\* > CANVAS > STUDY among those present, wherever the markers stand.
C9_FixedPriority ==
    Detected =>
        /\ \A k \in TagKinds :
              Present(k, tText) => tOut.kind \in TagKinds /\ Rank(tOut.kind) <= Rank(k)
        /\ tOut.kind \in TagKinds => Present(tOut.kind, tText)

C9_Witness ==
    /\ Detected
    /\ tText = <<"<STUDY>", "s", "</STUDY>", "<IMAGE>", "p", "</IMAGE>", "<THINK>">>
    /\ tOut.kind = "THINK"

DeepPayloads(t) ==
    { SubSeq(t, i + 1, j - 1) :
        <<i, j>> \in { w \in (1..Len(t)) \X (1..Len(t)) :
                         /\ w[1] < w[2]
                         /\ t[w[1]] = "<DEEP>"
                         /\ t[w[2]] = "</DEEP>"
                         /\ \A x \in (w[1] + 1)..(w[2] - 1) : t[x] # "nl" } }

C1_SingleFlight ==
    /\ Cardinality(Running) <= 1
    /\ Running # {} => ~Accepts

\* C7: while a send is in progress on one chat, a send submitted for the
\* other chat is accepted.
C7_LatchPerConversation ==
    (/\ Running # {}
     /\ activeChat # "null"
     /\ \A s \in Running : sends[s].chat # activeChat)
        => Accepts

\* a call has left (by any exit) and the lock it took is still held
HeldAfterExit == isSendingRef /\ Running = {}

\* C8: on every exit path the call releases the lock or leaves a timer that
\* will; a lock held with no call in progress is released when the timer
\* fires, so a later submission is accepted.
C8_LatchReleased ==
    /\ [](HeldAfterExit => timers > 0)
    /\ (HeldAfterExit ~> Accepts)

C8_Witness ==
    /\ "E" \in toasts
    /\ \E s \in SendIds : sends[s].pc = "done"
    /\ Running = {}
    /\ timers = 0
    /\ Accepts

(***************************************************************************)
(* Claims about the message view (SpecChat)                                *)
(***************************************************************************)
IsServerId(id) == id[1] = "srv"

\* the send has completed, each of its saves succeeded, and its chat has
\* been the one on screen throughout
CompletedSaved(s) ==
    /\ sends[s].pc = "done"
    /\ sends[s].stayed
    /\ activeChatIdRef = sends[s].chat
    /\ sends[s].savedUser # "none"
    /\ IsServerId(sends[s].savedUser)
    /\ sends[s].agentMessages # <<>>
    /\ Len(sends[s].savedAiMessages) = Len(sends[s].agentMessages)
    /\ \A k \in 1..Len(sends[s].savedAiMessages) : IsServerId(sends[s].savedAiMessages[k].id)

EntriesOf(of) == {i \in 1..Len(messages) : messages[i].of = of}

\* C2: after such a send the view holds exactly one entry for the user
\* message and for each assistant message, and no placeholder of the send.
C2_OneEntryPerMessage ==
    \A s \in SendIds :
        CompletedSaved(s) =>
            /\ \A k \in 0..Len(sends[s].agentMessages) : Cardinality(EntriesOf(<<s, k>>)) = 1
            /\ TempUserId(sends[s].t) \notin Ids(messages)
            /\ TempAiId(sends[s].t) \notin Ids(messages)

(***************************************************************************)
(* Claims about the re-routes of runAutonomousAgent (Spec)                 *)
(***************************************************************************)
\* SIMPLE ran first and its tag detection has re-routed the turn
Rerouted ==
    /\ handlerRuns # <<>>
    /\ handlerRuns[1] = "SIMPLE"
    /\ \/ Len(handlerRuns) = 2
       \/ pc = "loop" /\ loopCount = 1

\* a <THINK> that no </THINK> closes on its line
UnterminatedThink(t) ==
    /\ \E i \in 1..Len(t) : t[i] = "<THINK>"
    /\ ~PairPresent(t, "<THINK>", "</THINK>")

\* the calls of the generation backend issued so far
StreamCalls == SelectSeq(calls, LAMBDA c : c[1] = "generateContentStream")

\* C11: when SIMPLE's output holds an unterminated <THINK> and no marker of
\* higher priority, the turn re-routes to THINK and the prompt THINK works
\* on is the turn's original prompt.
C11_BareThinkUsesOriginalPrompt ==
    (/\ Rerouted
     /\ UnterminatedThink(generatedThisLoop)
     /\ ~Present("DEEP_SEARCH", generatedThisLoop)
     /\ ~Present("SEARCH", generatedThisLoop))
        => /\ currentAction = "THINK"
           /\ currentPrompt = UserPrompt
           /\ Len(handlerRuns) = 2 => handlerRuns[2] = "THINK"
           /\ Len(StreamCalls) = 2 => StreamCalls[2][2] = UserPrompt

C11_Witness ==
    /\ Settled
    /\ handlerRuns = <<"SIMPLE", "THINK">>
    /\ generatedThisLoop = <<"a", "<THINK>">>
    /\ Len(StreamCalls) = 2
    /\ StreamCalls[2][2] = UserPrompt
    /\ result.status = "resolved"
\* the payloads of the markers open...close of the text, each on one line
\* and holding no closing tag
Payloads(t, open, close) ==
    { SubSeq(t, w[1] + 1, w[2] - 1) :
        w \in { v \in (1..Len(t)) \X (1..Len(t)) :
                  /\ v[1] < v[2]
                  /\ t[v[1]] = open
                  /\ t[v[2]] = close
                  /\ \A x \in (v[1] + 1)..(v[2] - 1) : t[x] \notin {"nl", close} } }

ImageCalls == SelectSeq(calls, LAMBDA c : c[1] = "generateImage")

\* C12: when the classifier answers SIMPLE and SIMPLE's output holds
\* <IMAGE>p</IMAGE> and no marker of higher priority, the loop goes on to
\* IMAGE, the image backend is called once with prompt p, the turn ends in
\* its second iteration, and on success the message carries the image and
\* the text streamed by SIMPLE.
C12_ImageReroute ==
    (/\ Rerouted
     /\ Present("IMAGE", generatedThisLoop)
     /\ \A k \in {"DEEP_SEARCH", "SEARCH", "THINK"} : ~Present(k, generatedThisLoop))
        => /\ currentAction = "IMAGE"
           /\ Len(handlerRuns) = 2 => handlerRuns[2] = "IMAGE"
           /\ Len(ImageCalls) <= 1
           /\ \A i \in 1..Len(ImageCalls) :
                 ImageCalls[i][2] \in Payloads(generatedThisLoop, "<IMAGE>", "</IMAGE>")
           /\ Settled =>
                 /\ loopCount = 2
                 /\ Len(handlerRuns) = 2
                 /\ Len(ImageCalls) = 1
           /\ (Settled /\ failedAt = "none") =>
                 /\ result.messages[1].image_base64 = "img"
                 /\ result.messages[1].imageStatus = "complete"
                 /\ result.messages[1].text = generatedThisLoop

C12_Witness ==
    /\ Settled
    /\ failedAt = "none"
    /\ routing.action = "SIMPLE"
    /\ handlerRuns = <<"SIMPLE", "IMAGE">>
    /\ ImageCalls = << <<"generateImage", <<"p">>>> >>
    /\ result.messages[1].image_base64 = "img"
    /\ result.messages[1].text = <<"a", "<IMAGE>", "p", "</IMAGE>">>
\* the texts of the chunks of a stream, joined in order
RECURSIVE JoinText(_)
JoinText(chunks) ==
    IF chunks = <<>> THEN <<>> ELSE Head(chunks).text \o JoinText(Tail(chunks))

\* C13: when the classifier answers SEARCH the turn ends in its first
\* iteration, and the text of the result message holds the transition phrase
\* emitted when the search starts, followed by the streamed answer.
C13_SearchTextHasTransitionPhrase ==
    (Settled /\ routing.action = "SEARCH" /\ failedAt = "none")
        => /\ loopCount = 1
           /\ handlerRuns = <<"SEARCH">>
           /\ \E i \in 1..Len(ResultText) :
                 /\ ResultText[i] = "[Searching the web...]"
                 /\ SubSeq(ResultText, i + 1, Len(ResultText)) = JoinText(streamed)
(***************************************************************************)
(* Claims about failed saves and settled turns (SpecChat)                  *)
(***************************************************************************)
IsFailedSaveId(id) == id[1] = "failed-save"
SaveWarning == "Failed to save AI response to history, but here it is."

\* the text generated for the k-th message of the agent's result
GeneratedText(rec, k) ==
    IF rec.agentMessages[k] # <<>> THEN rec.agentMessages[k] ELSE rec.currentText

\* the records of the send whose save failed
Fallbacks(rec) ==
    {k \in 1..Len(rec.savedAiMessages) : IsFailedSaveId(rec.savedAiMessages[k].id)}

InView(m) == \E i \in 1..Len(messages) : messages[i] = m

\* C14: when the save of an assistant message fails, a record with the
\* generated text and a failed-save id takes its place and a warning is
\* issued; the loop goes on with the next message or ends normally, and
\* when the send ends every such record is in the view.
C14_FailedSaveKeepsMessage ==
    [][\A s \in SendIds :
         LET old == sends[s]
             new == sends'[s]
             k == Len(new.savedAiMessages)
         IN  /\ (/\ old.pc = "saveAi"
                 /\ Len(new.savedAiMessages) = Len(old.savedAiMessages) + 1)
                    => /\ IsFailedSaveId(new.savedAiMessages[k].id)
                       /\ new.savedAiMessages[k].text = GeneratedText(old, k)
                       /\ new.savedAiMessages[k].sender = "ai"
                       /\ new.savedAiMessages[k].chat_id = old.chat
                       /\ SaveWarning \in toasts'
                       /\ "E" \notin toasts' \ toasts
                       /\ new.pc = (IF k = Len(old.agentMessages) THEN "done" ELSE "saveAi")
             /\ (old.pc # "done" /\ new.pc = "done")
                    => \A j \in Fallbacks(new) :
                          \E i \in 1..Len(messages') : messages'[i] = new.savedAiMessages[j]
      ]_vars

C14_Witness ==
    \E s \in SendIds :
        /\ sends[s].pc = "done"
        /\ Len(sends[s].agentMessages) = 2
        /\ Fallbacks(sends[s]) = {1}
        /\ InView(sends[s].savedAiMessages[1])
        /\ InView(sends[s].savedAiMessages[2])
        /\ SaveWarning \in toasts
\* C15: a record whose save failed stays visible: once its send has ended
\* with its chat on screen, whenever that chat is the active one and no
\* history fetch is pending, the record is in the view.
C15_UnsavedStaysVisible ==
    \A s \in SendIds :
        (/\ sends[s].pc = "done"
         /\ sends[s].stayed
         /\ activeChatIdRef = sends[s].chat
         /\ fetches = {})
            => \A j \in Fallbacks(sends[s]) : InView(sends[s].savedAiMessages[j])
\* an assistant-side entry of the send's turn: a saved message, a fallback
\* record, or the placeholder turned into an error message
AssistantEntryOf(s, m) ==
    /\ m.chat_id = sends[s].chat
    /\ m.sender = "ai"
    /\ \/ \E k \in 1..Len(sends[s].savedAiMessages) : m = sends[s].savedAiMessages[k]
       \/ m.id = TempAiId(sends[s].t) /\ m.text = ErrorNote

\* C16: after an accepted send has settled, the view of its chat holds an
\* assistant-side entry for the turn (here: the chat was selected once and
\* has been on screen ever since).
C16_TurnLeavesAssistantEntry ==
    \A s \in SendIds :
        (sends[s].pc = "done" /\ selects = 1)
            => \E i \in 1..Len(messages) : AssistantEntryOf(s, messages[i])
(***************************************************************************)
(* Claims about the optimistic update, the stream and the merge (SpecChat) *)
(***************************************************************************)
NotYetShown(rec) == rec.pc \in {"idle", "reading"}

\* C17: the step by which an accepted send first shows in the view appends,
\* after all entries already there, the user placeholder with the submitted
\* text and right after it an empty assistant placeholder; at that point no
\* persistence or agent call of the send has been made.
C17_PlaceholdersFirst ==
    [][\A s \in SendIds :
         (NotYetShown(sends[s]) /\ ~NotYetShown(sends'[s])) =>
            LET new == sends'[s]
                n == Len(messages)
            IN  /\ new.pc = "saveUser"
                /\ new.savedUser = "none"
                /\ new.agentMessages = <<>>
                /\ new.currentText = <<>>
                /\ db' = db
                /\ Len(messages') = n + 2
                /\ SubSeq(messages', 1, n) = messages
                /\ messages'[n + 1].id = TempUserId(new.t)
                /\ messages'[n + 1].sender = "user"
                /\ messages'[n + 1].text = UserText
                /\ messages'[n + 1].chat_id = new.chat
                /\ messages'[n + 2].id = TempAiId(new.t)
                /\ messages'[n + 2].sender = "ai"
                /\ messages'[n + 2].text = <<>>
                /\ messages'[n + 2].chat_id = new.chat
      ]_vars

C17_Witness ==
    \E s \in SendIds :
        /\ sends[s].pc = "saveUser"
        /\ Len(messages) = 4
        /\ SubSeq(messages, 1, 2) = EarlierHistory
        /\ messages[3].id = TempUserId(sends[s].t)
        /\ messages[4].id = TempAiId(sends[s].t)
        /\ messages[4].text = <<>>
        /\ db["A"] = EarlierHistory
\* the send is waiting for its agent and the step hands it a chunk (no
\* history fetch starts or lands in the step)
ChunkStep(s) ==
    /\ sends[s].pc = "agent"
    /\ sends'[s].pc = "agent"
    /\ fetches' = fetches
    /\ messages' # messages \/ sends'[s].currentText # sends[s].currentText

\* C18: while the agent streams, the text of the assistant placeholder is
\* the chunks of text received so far joined in the order of receipt: each
\* chunk is put at the end of the text, the placeholder is found by its id
\* wherever it stands, and a chunk changes no other entry of the view.
C18_ChunksInReceiptOrder ==
    /\ [](\A s \in SendIds : sends[s].pc = "agent" =>
            \A i \in 1..Len(messages) :
               messages[i].id = TempAiId(sends[s].t)
                  => messages[i].text = sends[s].currentText)
    /\ [][\A s \in SendIds : ChunkStep(s) =>
            /\ \E chunk \in SinkChunks(sends[s].currentText) :
                  sends'[s].currentText = sends[s].currentText \o chunk.text
            /\ Len(messages') = Len(messages)
            /\ \A i \in 1..Len(messages) :
                  IF messages[i].id = TempAiId(sends[s].t)
                  THEN /\ messages'[i].text = sends'[s].currentText
                       /\ messages'[i].id = messages[i].id
                       /\ messages'[i].sender = messages[i].sender
                       /\ messages'[i].chat_id = messages[i].chat_id
                  ELSE messages'[i] = messages[i]
      ]_vars

\* two chunks have arrived and a history fetch has landed in between
C18_Witness ==
    \E s \in SendIds :
        /\ sends[s].pc = "agent"
        /\ sends[s].currentText = <<"c1", "c2">>
        /\ Len(messages) = 4
        /\ messages[2].id = ServerId(2)
        /\ messages[4].id = TempAiId(sends[s].t)
        /\ messages[4].text = <<"c1", "c2">>
\* the k-th entry of the list that is of the chat and not in the history,
\* counted from the front; 0 if there are fewer than k
RECURSIVE KeptAt(_, _, _, _, _)
KeptAt(prev, history, chat, k, from) ==
    IF from > Len(prev) THEN 0
    ELSE IF prev[from].chat_id = chat /\ \A j \in 1..Len(history) : history[j].id # prev[from].id
         THEN (IF k = 1 THEN from ELSE KeptAt(prev, history, chat, k - 1, from + 1))
         ELSE KeptAt(prev, history, chat, k, from + 1)

\* C19: when a history fetch for the active chat lands, the new view is the
\* fetched history followed by the previous entries of that chat whose id
\* is not in the history, in their previous order; the placeholders of a
\* send in progress on that chat are therefore kept.
C19_HistoryThenPending ==
    [][\A f \in fetches :
         (FetchLand(f) /\ activeChatIdRef = f.chat) =>
            LET h == f.history
                n == Len(messages') - Len(h)
            IN  /\ n >= 0
                /\ SubSeq(messages', 1, Len(h)) = h
                /\ \A k \in 1..n :
                      /\ KeptAt(messages, h, f.chat, k, 1) # 0
                      /\ messages'[Len(h) + k] = messages[KeptAt(messages, h, f.chat, k, 1)]
                /\ KeptAt(messages, h, f.chat, n + 1, 1) = 0
                /\ \A s \in SendIds :
                      (InProgress(s) /\ sends[s].chat = f.chat) =>
                         \A i \in 1..Len(messages) :
                            messages[i].id \in {TempUserId(sends[s].t), TempAiId(sends[s].t)}
                               => \E j \in 1..Len(messages') : messages'[j] = messages[i]
      ]_vars

\* a fetch has landed between the storing of the user's row and the reply
C19_Witness ==
    \E s \in SendIds :
        /\ sends[s].pc = "saveUserReply"
        /\ Len(messages) = 5
        /\ SubSeq(messages, 1, 2) = EarlierHistory
        /\ messages[3].id = sends[s].savedUser
        /\ messages[4].id = TempUserId(sends[s].t)
        /\ messages[5].id = TempAiId(sends[s].t)
(***************************************************************************)
(* Claims about the terminal handlers (Spec)                               *)
(***************************************************************************)
\* where a handler other than SIMPLE can be: at one of its awaits, or returned
TerminalPcs == {"count", "gen", "stream", "research", "image", "project", "done"}

\* a step taken while such a handler runs stays in it or ends the turn
StaysInHandler ==
    CurrentHandler \in TagKinds =>
        /\ handlerRuns' = handlerRuns
        /\ loopCount' = loopCount
        /\ currentAction' = currentAction
        /\ pc' \in TerminalPcs
        /\ pc' # pc => pc' \in {"gen", "stream", "done"}

\* C20: a handler of SEARCH, DEEP_SEARCH, THINK, IMAGE, PROJECT, CANVAS or
\* STUDY ends the turn in its own iteration: it is the last handler to run,
\* control never returns to the head of the loop after it, whatever its
\* output holds and whether it succeeds or fails.
C20_TerminalHandlers ==
    /\ [](/\ \A i \in 1..Len(handlerRuns) :
                handlerRuns[i] \in TagKinds => i = Len(handlerRuns)
          /\ CurrentHandler \in TagKinds =>
                /\ pc \in TerminalPcs
                /\ currentAction = CurrentHandler
                /\ loopCount = Len(handlerRuns))
    /\ [][StaysInHandler]_vars

\* a search whose answer holds a search marker has returned it as text
C20_Witness ==
    /\ Settled
    /\ failedAt = "none"
    /\ handlerRuns = <<"SEARCH">>
    /\ loopCount = 1
    /\ ResultText = <<"x", "<SEARCH>", "q", "</SEARCH>">>

(***************************************************************************)
(* Claims about the outcome of the SIMPLE handler (Spec)                   *)
(***************************************************************************)
OpenTag(kind) ==
    CASE kind = "DEEP_SEARCH" -> "<DEEP>"
      [] kind = "SEARCH" -> "<SEARCH>"
      [] kind = "THINK" -> "<THINK>"
      [] kind = "IMAGE" -> "<IMAGE>"
      [] kind = "PROJECT" -> "<PROJECT>"
      [] kind = "CANVAS" -> "<CANVAS>"
      [] kind = "STUDY" -> "<STUDY>"

CloseTag(kind) ==
    CASE kind = "DEEP_SEARCH" -> "</DEEP>"
      [] kind = "SEARCH" -> "</SEARCH>"
      [] kind = "THINK" -> "</THINK>"
      [] kind = "IMAGE" -> "</IMAGE>"
      [] kind = "PROJECT" -> "</PROJECT>"
      [] kind = "CANVAS" -> "</CANVAS>"
      [] kind = "STUDY" -> "</STUDY>"

\* the payloads of the markers <NAME>payload</NAME> of a kind in the text,
\* the payload being any string
Spans(kind, t) ==
    { SubSeq(t, w[1] + 1, w[2] - 1) :
        w \in { v \in (1..Len(t)) \X (1..Len(t)) :
                  /\ v[1] < v[2]
                  /\ t[v[1]] = OpenTag(kind)
                  /\ t[v[2]] = CloseTag(kind) } }

Suffixes(s) == { SubSeq(s, k, Len(s)) : k \in 1..(Len(s) + 1) }

\* what a marker of the kind may stand for: its kind (a search marker also
\* the deep-research kind), and its payload as a prompt (a search payload
\* also without its cue, a reasoning payload also trimmed or defaulted)
KindsFor(kind) == IF kind = "SEARCH" THEN {"SEARCH", "DEEP_SEARCH"} ELSE {kind}
PromptsFor(kind, t) ==
    Spans(kind, t)
    \cup (IF kind = "SEARCH" THEN UNION { Suffixes(p) : p \in Spans(kind, t) } ELSE {})
    \cup (IF kind = "THINK" THEN { Trim(p) : p \in Spans(kind, t) } \cup {UserPrompt} ELSE {})

\* the stream of SIMPLE, the first handler, has completed
SimpleCompleted ==
    /\ handlerRuns # <<>>
    /\ handlerRuns[1] = "SIMPLE"
    /\ \/ Rerouted
       \/ Settled /\ failedAt = "none"

\* C21: after SIMPLE's stream has completed, if its output holds a marker
\* <NAME>payload</NAME> of one of the seven kinds, whatever the payload, the
\* loop has gone on with currentAction that kind and currentPrompt the
\* payload (or, with a bare <THINK> in the text, to THINK with the original
\* prompt); if it holds no marker (and no bare <THINK>), the turn has ended
\* with the accumulated text as its result.
C21_SimpleRoutesOnMarker ==
    SimpleCompleted =>
        LET g == generatedThisLoop
            marked == {k \in TagKinds : Spans(k, g) # {}}
            bare == \E i \in 1..Len(g) : g[i] = "<THINK>"
        IN  IF marked # {}
            THEN /\ Rerouted
                 /\ \/ \E k \in marked :
                          /\ currentAction \in KindsFor(k)
                          /\ currentPrompt \in PromptsFor(k, g)
                    \/ bare /\ currentAction = "THINK" /\ currentPrompt = UserPrompt
            ELSE ~bare =>
                    /\ handlerRuns = <<"SIMPLE">>
                    /\ Settled
                    /\ ResultText = finalResponseText
(***************************************************************************)
(* Claims about the accumulated text (Spec)                                *)
(***************************************************************************)
IsPrefix(a, b) == Len(a) <= Len(b) /\ SubSeq(b, 1, Len(a)) = a

\* a step leaves the accumulated text as it is or puts something after it
AppendsOnly == IsPrefix(finalResponseText, finalResponseText')

\* C22: the accumulated text is append-only within a turn: every step keeps
\* its previous value as a prefix; the text SIMPLE streamed before a
\* re-route, marker included, stays a prefix of the accumulated text and is
\* a prefix of the final message of a turn that succeeds.
C22_AppendOnly ==
    /\ [][AppendsOnly]_vars
    /\ [](Rerouted =>
            /\ IsPrefix(generatedThisLoop, finalResponseText)
            /\ (Settled /\ failedAt = "none") => IsPrefix(generatedThisLoop, ResultText))

C22_Witness ==
    /\ Settled
    /\ failedAt = "none"
    /\ handlerRuns = <<"SIMPLE", "DEEP_SEARCH">>
    /\ generatedThisLoop = <<"a", "<SEARCH>", "deep", "sp", "r", "</SEARCH>">>
    /\ ResultText = generatedThisLoop \o <<"nl", "nl">> \o ResearchText

\* both iterations of the turn have ended
TwoIterations == Rerouted /\ Settled /\ Len(handlerRuns) = 2

\* C23 as claimed: the accumulated text at the end of the first iteration
\* is a strict prefix of the accumulated text at the end of the second:
\* the second iteration adds at least one character (stated for the turns
\* in which no call failed).
C23_StrictPrefix_Claimed ==
    (TwoIterations /\ failedAt = "none") =>
        /\ IsPrefix(generatedThisLoop, finalResponseText)
        /\ Len(generatedThisLoop) < Len(finalResponseText)

\* the second iteration is one that puts text after the accumulated text:
\* deep research or the project builder has answered, the image backend
\* has failed, or the second stream has delivered text
AddsText ==
    \/ handlerRuns[2] \in {"DEEP_SEARCH", "PROJECT"} /\ failedAt = "none"
    \/ failedAt = "image"
    \/ Len(StreamCalls) = 2 /\ JoinText(streamed) # <<>>

\* C23 as amended: the text at the end of the first iteration is a prefix
\* of the text at the end of the second; it is a strict prefix exactly when
\* the second iteration puts text after it, and the two are equal
\* otherwise (an image that was generated, a stream without text, a call
\* that failed).
C23_PrefixStrictWhenTextAdded ==
    TwoIterations =>
        /\ IsPrefix(generatedThisLoop, finalResponseText)
        /\ AddsText <=> Len(generatedThisLoop) < Len(finalResponseText)

C23_Witness ==
    /\ TwoIterations
    /\ handlerRuns[2] = "IMAGE"
    /\ failedAt = "image"
    /\ generatedThisLoop = <<"<IMAGE>", "p", "</IMAGE>">>
    /\ finalResponseText = generatedThisLoop \o <<"[(Image generation failed: E)]">>

(***************************************************************************)
(* Claims about repeated markers (Spec)                                    *)
(***************************************************************************)
\* a search marker that begins with the deep-research cue starts at i
CueAt(t, i) ==
    /\ i + 2 <= Len(t)
    /\ Fold(t[i]) = "<SEARCH>"
    /\ Fold(t[i + 1]) = "deep"
    /\ IsWS(t[i + 2])
    /\ \E j \in (i + 3)..Len(t) : Fold(t[j]) = "</SEARCH>"

\* the places of the text where a marker of the kind starts
Occurrences(kind, t) ==
    {i \in 1..Len(t) :
        \/ kind = "THINK" /\ t[i] = "<THINK>"
        \/ kind = "DEEP_SEARCH" /\ CueAt(t, i)
        \/ /\ t[i] = OpenTag(kind)
           /\ \E j \in (i + 1)..Len(t) : t[j] = CloseTag(kind)}

\* the payload of the marker of the kind that starts at i, as a prompt
PayloadAt(kind, t, i) ==
    LET closes == {j \in (i + 1)..Len(t) : Fold(t[j]) = CloseTag(IF t[i] = OpenTag(kind) THEN kind ELSE "SEARCH")}
        span == SubSeq(t, i + 1, Min(closes) - 1)
    IN  IF closes = {} THEN UserPrompt
        ELSE IF kind = "THINK" THEN (IF span # <<>> THEN Trim(span) ELSE UserPrompt)
        ELSE IF t[i] # OpenTag(kind) THEN SubSeq(t, WsEnd(t, i + 2) + 1, Min(closes) - 1)
        ELSE span

\* C24: when the kind that wins occurs more than once in SIMPLE's output,
\* one re-route happens and its payload is that of the first occurrence of
\* that kind in the text; the later occurrences are ignored.
C24_FirstOccurrenceWins ==
    (Rerouted /\ Cardinality(Occurrences(currentAction, generatedThisLoop)) >= 2)
        => /\ currentPrompt =
                PayloadAt(currentAction, generatedThisLoop,
                          Min(Occurrences(currentAction, generatedThisLoop)))
           /\ Len(handlerRuns) <= 2
           /\ Len(handlerRuns) = 2 => handlerRuns[2] = currentAction

(***************************************************************************)
(* Claims about a failed image generation (Spec)                           *)
(***************************************************************************)
FailureAnnotation == <<"[(Image generation failed: E)]">>

\* the text accumulated before the IMAGE handler was entered
TextBeforeImage == IF Len(handlerRuns) = 2 THEN generatedThisLoop ELSE <<>>

\* C25: when generateImage fails, the turn ends in the iteration of the
\* IMAGE handler with one message whose text is the accumulated text
\* followed by the failure annotation and which carries no image; the
\* image backend has been called exactly once, and the annotation is the
\* last chunk handed to the sink.
C25_ImageFailureDegradesToText ==
    failedAt = "image" =>
        /\ Settled
        /\ result.status = "resolved"
        /\ Len(result.messages) = 1
        /\ ResultText = TextBeforeImage \o FailureAnnotation
        /\ result.messages[1].image_base64 = "none"
        /\ result.messages[1].imageStatus = "none"
        /\ CurrentHandler = "IMAGE"
        /\ loopCount = Len(handlerRuns)
        /\ Len(ImageCalls) = 1
        /\ sink # <<>>
        /\ sink[Len(sink)] = [type |-> "text", text |-> FailureAnnotation]

C25_Witness ==
    /\ failedAt = "image"
    /\ Settled
    /\ handlerRuns = <<"IMAGE">>
    /\ ImageCalls = << <<"generateImage", <<"rp">>>> >>
    /\ ResultText = FailureAnnotation
    /\ sink = << [type |-> "image_generation_start", text |-> <<>>],
                 [type |-> "text", text |-> FailureAnnotation] >>

(***************************************************************************)
(* Claims about persistence failures (SpecChat)                            *)
(***************************************************************************)
\* the save of the send's user message has failed
UserSaveFailed(s) == sends[s].savedUser # "none" /\ sends[s].savedUser[1] = "temp-user"

\* the message whose save failed is in the view as the record held locally
\* (stated for a chat selected once and on screen ever since)
LocallyVisible(s) ==
    selects = 1 =>
        /\ UserSaveFailed(s) =>
              \E i \in 1..Len(messages) :
                 /\ messages[i].id = TempUserId(sends[s].t)
                 /\ messages[i].sender = "user"
                 /\ messages[i].text = UserText
        /\ sends[s].pc = "done" =>
              \A k \in Fallbacks(sends[s]) : InView(sends[s].savedAiMessages[k])

\* the turn has gone on to the agent after the failure
TurnContinues(s) ==
    UserSaveFailed(s) => sends[s].pc \in {"agent", "saveAi", "saveAiReply", "done"}

\* C26: on a persistence failure, that of the user message included, the
\* message stays in the view as a locally held record, a notification has
\* been issued to the user, and the turn goes on (the agent is run for a
\* user message whose save failed).
C26_PersistenceFailureNotified ==
    \A s \in SendIds :
        /\ LocallyVisible(s)
        /\ TurnContinues(s)
        /\ Fallbacks(sends[s]) # {} => SaveWarning \in toasts
        /\ UserSaveFailed(s) => toasts # {}

(***************************************************************************)
(* Claims about client-minted ids (SpecChat)                               *)
(***************************************************************************)
IsClientId(id) == id[1] \in {"temp-user", "temp-ai", "failed-save"}

\* no id stands for two messages in the list
OneMessagePerId(list) ==
    \A i, j \in 1..Len(list) : list[i].id = list[j].id => list[i].of = list[j].of

\* C27: an id minted by the client is no server id and is the id of one
\* logical message only, among the entries of the view and among the
\* records a send holds for its assistant messages, however many messages
\* the agent returns and whatever the clock reads.
C27_ClientIdsDistinct ==
    /\ \A i \in 1..Len(messages) : IsClientId(messages[i].id) => ~IsServerId(messages[i].id)
    /\ OneMessagePerId(messages)
    /\ \A s \in SendIds : OneMessagePerId(sends[s].savedAiMessages)

(***************************************************************************)
(* Claims about control events in the stream (SpecChat)                    *)
(***************************************************************************)
\* the chunk is JSON text of an object whose type is image_generation_start
RecognisedEvent(chunk) == chunk.type = "image_generation_start"

\* what the delivery of the chunk to the send's sink does to the view
DeliveryEffect(s, chunk) ==
    LET before == sends[s].currentText
        after == IF RecognisedEvent(chunk) THEN before ELSE before \o chunk.text
    IN  /\ sends'[s].currentText = after
        /\ Len(messages') = Len(messages)
        /\ \A i \in 1..Len(messages) :
              IF messages[i].id = TempAiId(sends[s].t)
              THEN /\ messages'[i].text = after
                   /\ messages'[i].imageStatus =
                        (IF RecognisedEvent(chunk) THEN "generating"
                         ELSE messages[i].imageStatus)
                   /\ messages'[i].id = messages[i].id
                   /\ messages'[i].sender = messages[i].sender
              ELSE messages'[i] = messages[i]

\* C28: a chunk handed to the sink is a control event exactly when it is
\* JSON whose type is image_generation_start: it is then left out of the
\* text and marks the placeholder as generating, nothing else; every other
\* chunk, valid JSON of another type or null included, is put verbatim at
\* the end of the placeholder's text.
C28_ControlEventOnlyIfRecognised ==
    [][\A s \in SendIds : \A chunk \in SinkChunks(sends[s].currentText) :
         OnStreamChunk(s, chunk) => DeliveryEffect(s, chunk)]_vars

C28_Witness ==
    \E s \in SendIds : \E i \in 1..Len(messages) :
        /\ sends[s].pc = "agent"
        /\ sends[s].currentText = <<"c1", "null">>
        /\ messages[i].id = TempAiId(sends[s].t)
        /\ messages[i].text = <<"c1", "null">>
        /\ messages[i].imageStatus = "generating"

(***************************************************************************)
(* Claims about when the tag detection runs (Spec)                         *)
(***************************************************************************)
\* SIMPLE is the handler being run and its stream has been opened
SimpleStreaming == CurrentHandler = "SIMPLE" /\ pc \in {"stream", "loop", "done"}

\* the routing decision taken on the whole text
DecisionOn(text) ==
    LET tag == TagDetection(text, UserPrompt)
    IN  <<tag.kind, tag.prompt>>

\* a step that changes the routing is the initialisation of the loop or
\* the step that ends SIMPLE's stream; a step that takes a chunk is none
RoutesOnlyAtStreamEnd ==
    /\ (currentAction' # currentAction \/ currentPrompt' # currentPrompt) =>
          \/ pc = "context"
          \/ /\ pc = "stream" /\ pc' = "loop"
             /\ CurrentHandler = "SIMPLE"
             /\ streamed' = streamed
             /\ loopCount = 1
    /\ (pc = "stream" /\ streamed' # streamed) =>
          /\ pc' = "stream"
          /\ handlerRuns' = handlerRuns

\* C29: the tag detection runs once per execution of SIMPLE, when its
\* stream has ended, on the chunks of that execution joined in order: no
\* re-route starts while chunks arrive, and the decision (kind and payload)
\* is the one taken on the joined text, hence the same however the text is
\* cut into chunks, a marker cut by a chunk boundary included.
C29_DetectionOnWholeStream ==
    /\ [](SimpleStreaming =>
            /\ generatedThisLoop = JoinText(streamed)
            /\ (pc = "loop" =>
                  /\ loopCount = 1
                  /\ DecisionOn(JoinText(streamed))[1] # "NONE"
                  /\ <<currentAction, currentPrompt>> = DecisionOn(JoinText(streamed)))
            /\ (pc = "done" /\ failedAt = "none" =>
                  DecisionOn(JoinText(streamed))[1] = "NONE"))
    /\ [][RoutesOnlyAtStreamEnd]_vars

\* an image marker that arrived in two chunks has re-routed the turn
C29_Witness ==
    /\ pc = "loop"
    /\ loopCount = 1
    /\ streamed = << Chunk(<<"<IMAGE>", "p">>, <<>>), Chunk(<<"</IMAGE>">>, <<>>) >>
    /\ currentAction = "IMAGE"
    /\ currentPrompt = <<"p">>

(***************************************************************************)
(* Claims about the background calls (SpecBackground)                      *)
(***************************************************************************)
\* C30: a failure of a background call (saving a memory the agent proposed,
\* memory extraction, title generation) is caught and swallowed: no
\* rejection of such a call is left without a handler.
C30_BackgroundFailuresSwallowed == unhandled = {}

(***************************************************************************)
(* Claims about the turn's metadata and counters (Spec)                    *)
(***************************************************************************)
\* the calls runAutonomousAgent makes to its collaborators
AgentCallNames ==
    {"route", "getContext", "incrementThinkingCount", "generateContentStream",
     "deepResearch", "generateImage", "generateContent"}

\* the turn has returned from the SIMPLE handler, no marker found
FinalizedInSimple ==
    /\ Settled
    /\ failedAt = "none"
    /\ CurrentHandler = "SIMPLE"

\* C31: the result of a turn carries a memory directive exactly when the
\* turn finalized in the SIMPLE handler with no marker found and the text
\* generated in that iteration is longer than 50 characters (50 itself does
\* not qualify); the handler writes no memory, it calls none but its own
\* collaborators.
C31_MemoryDirective ==
    /\ Settled =>
         (result.messages[1].memoryToCreate
            <=> /\ FinalizedInSimple
                /\ TagDetection(generatedThisLoop, UserPrompt).kind = "NONE"
                /\ Length(generatedThisLoop) > 50)
    /\ \A i \in 1..Len(calls) : calls[i][1] \in AgentCallNames

\* a turn that finalized in SIMPLE with 51 characters and carries the directive
C31_Witness ==
    /\ FinalizedInSimple
    /\ Length(generatedThisLoop) = 51
    /\ result.messages[1].memoryToCreate


\* the grounding references collected so far, in collection order
Collected == metadataPayload.groundingMetadata

\* a reference was collected by SIMPLE before the turn was re-routed
CollectedEarlier ==
    /\ TwoIterations
    /\ Collected # <<>>
    /\ Collected[1] = "g1"

\* C32: the turn's metadata is merged across loop iterations and never
\* overwritten: every grounding reference collected in an earlier iteration
\* is still present, in collection order and before any reference collected
\* later, in the metadata of the turn's final message.
C32_MetadataMerged ==
    CollectedEarlier =>
        /\ result.messages[1].hasGrounding
        /\ IsPrefix(<<"g1">>, result.messages[1].groundingMetadata)
        /\ result.messages[1].groundingMetadata = Collected


\* positions of the calls of incrementThinkingCount that resolved
ThinkingCounted == {i \in 1..Len(calls) : calls[i][1] = "incrementThinkingCount"}

\* number of incrementThinkingCount calls the turn has issued, the one that
\* rejected included
ThinkingIssued ==
    Cardinality(ThinkingCounted) + (IF failedAt = "count" THEN 1 ELSE 0)

\* the THINK handler has been entered and is past its first await
ThinkPastCount ==
    /\ CurrentHandler = "THINK"
    /\ pc # "count" \/ failedAt = "count"

\* C33: a turn increments the thinking-usage counter exactly once if it
\* executes the THINK handler and never otherwise, and the increment is
\* issued before the generation request of THINK.
C33_ThinkingCountedOnce ==
    /\ ThinkingIssued = (IF ThinkPastCount THEN 1 ELSE 0)
    /\ (CurrentHandler # "THINK" => "THINK" \notin {handlerRuns[i] : i \in 1..Len(handlerRuns)})
    /\ \A i \in ThinkingCounted :
          /\ \A j \in 1..(i - 1) : calls[j][1] # "generateContentStream" \/ handlerRuns[1] = "SIMPLE"
          /\ i = Len(calls) \/ (i + 1 = Len(calls) /\ calls[i + 1][1] = "generateContentStream")
    /\ (CurrentHandler = "THINK" /\ pc = "stream") =>
          /\ Len(calls) >= 2
          /\ calls[Len(calls)][1] = "generateContentStream"
          /\ calls[Len(calls) - 1][1] = "incrementThinkingCount"

\* a turn re-routed to THINK has counted once and then streamed its answer
C33_Witness ==
    /\ Settled
    /\ failedAt = "none"
    /\ handlerRuns = <<"SIMPLE", "THINK">>
    /\ ThinkingIssued = 1
    /\ calls[Len(calls)][1] = "generateContentStream"
    /\ calls[Len(calls) - 1][1] = "incrementThinkingCount"


(***************************************************************************)
(* Claims about the end of a turn in the view (SpecChat)                   *)
(***************************************************************************)
\* the call has obtained the agent's result and left through the end of its
\* try block (the catch block is the only place that issues the toast "E")
FinishedNormally(s) ==
    /\ sends[s].pc = "done"
    /\ "E" \notin toasts

\* C34: after handleSendMessage has obtained the agent's result and finished
\* normally, the assistant placeholder (temp-ai-...) is no longer in the
\* view, whether the agent returned zero, one or several messages and
\* whether or not the placeholder was still in the view at that time.
C34_NoStuckPlaceholder ==
    \A s \in SendIds :
        FinishedNormally(s) => TempAiId(sends[s].t) \notin Ids(messages)

\* a turn with two assistant messages has finished after the user had gone
\* to another chat, and placeholders were shown
C34_Witness ==
    \E s \in SendIds :
        /\ FinishedNormally(s)
        /\ ~sends[s].stayed
        /\ Len(sends[s].savedAiMessages) = 2
        /\ messages # <<>>


(***************************************************************************)
(* Claims about the end of the routing loop (Spec)                         *)
(***************************************************************************)
\* the ways a turn ends
EndsInTerminalHandler == Settled /\ CurrentHandler \in ActionKinds \ {"SIMPLE"}
EndsInSimpleNoMarker ==
    /\ Settled
    /\ CurrentHandler = "SIMPLE"
    /\ failedAt = "none"
    /\ TagDetection(generatedThisLoop, UserPrompt).kind = "NONE"
EndsInError ==
    /\ Settled
    /\ failedAt \in AwaitPcs
    /\ ResultText = ErrorText

\* C35: the routing loop never ends through exhaustion of its bound: the
\* handler run in the second iteration is one of the seven terminal
\* handlers and never SIMPLE, so every turn ends with a terminal handler's
\* result, with SIMPLE's no-marker result or with the error result.
C35_NoLoopExhaustion ==
    /\ pc = "loop" => loopCount < MAX_LOOPS
    /\ Len(handlerRuns) = MAX_LOOPS =>
          handlerRuns[MAX_LOOPS] \in ActionKinds \ {"SIMPLE"}
    /\ Settled => EndsInTerminalHandler \/ EndsInSimpleNoMarker \/ EndsInError

\* a turn that ran its second iteration and ended with that handler's result
C35_Witness ==
    /\ EndsInTerminalHandler
    /\ Len(handlerRuns) = MAX_LOOPS
    /\ loopCount = MAX_LOOPS
    /\ failedAt = "none"


\* the turn was re-routed to THINK by a <THINK> marker in SIMPLE's text
ThinkByMarker == Rerouted /\ currentAction = "THINK"

\* C36: whenever the THINK handler is entered through a <THINK> marker and
\* the user's original prompt is not empty, the prompt passed to THINK is
\* not empty, whatever the payload of the marker (absent, empty, whitespace
\* only, or text).
C36_ThinkPromptNonEmpty ==
    (ThinkByMarker /\ UserPrompt # <<>>) => currentPrompt # <<>>


(***************************************************************************)
(* Claims about the view and the active conversation (SpecChat)            *)
(***************************************************************************)
\* every entry of the view belongs to the active conversation
ViewOfActive == \A i \in 1..Len(messages) : messages[i].chat_id = activeChat

\* the view shows the active conversation and no fetch is under way
ShowsActive == ViewOfActive /\ messages # <<>> /\ fetches = {}

\* the history of the active conversation lands: the view is that
\* conversation's; and while the conversation stays the active one, no step
\* puts an entry of another conversation into a view that shows it
ViewStaysOfActive ==
    /\ \A f \in fetches :
          (FetchLand(f) /\ f.chat = activeChatIdRef) => ViewOfActive'
    /\ (ShowsActive /\ activeChat' = activeChat) => ViewOfActive'

\* C37: once the history fetch of the active conversation has landed, every
\* entry of the view belongs to that conversation: neither a streamed chunk
\* nor the final result of a turn started in another conversation is added
\* to the view of the active conversation, in any interleaving of chat
\* selection with a send in flight.
C37_ViewBelongsToActiveChat == [][ViewStaysOfActive]_vars


\* C38: whenever ChatInput accepts a submission (text or files, isLoading
\* false) and clears the input box, handleSendMessage accepts it as well: in
\* no interleaving of sends, release timers and history fetches is a
\* submission cleared from the input and then turned away by the latch.
C38_AcceptedInputIsSent ==
    (activeChat # "null" /\ InputAccepts) => Accepts


(***************************************************************************)
(* Claims about deepResearch (SpecResearch)                                *)
(***************************************************************************)
\* the sections of an answer's body: the text between the '---' separators
RECURSIVE SplitSections(_)
SplitSections(body) ==
    IF body = <<>> THEN <<>>
    ELSE LET seps == {k \in 1..Len(body) : body[k] = "---"}
         IN  IF seps = {} THEN <<body>>
             ELSE <<SubSeq(body, 1, Min(seps) - 1)>>
                    \o SplitSections(SubSeq(body, Min(seps) + 1, Len(body)))

\* the progress notifications issued so far, in order
NotesIssued ==
    LET IsNote(e) == e.kind = "progress"
    IN  SelectSeq(research.log, IsNote)

AllNotes == <<Progress(1), Progress(2), Progress(3)>>

\* every call is issued after the notification of its phase
NotesBeforePhases ==
    \A k \in 1..Len(research.log) :
        /\ research.log[k] = CallOf("performWebSearch", "q") =>
              \E j \in 1..(k - 1) : research.log[j] = Progress(1)
        /\ (research.log[k].kind = "call" /\ research.log[k].what[1] = "scrapeURL") =>
              \E j \in 1..(k - 1) : research.log[j] = Progress(2)

\* C39: deepResearch returns at most 5 source URLs, and a scrape that fails
\* never fails the research: the answer holds exactly one section per source
\* URL, in the order of the returned sources, with the failure placeholder
\* for each URL whose scrape failed; the three progress notifications are
\* issued in their fixed order, each before its phase starts.
C39_DeepResearchSections ==
    /\ research.status # "rejected"
    /\ IsPrefix(NotesIssued, AllNotes)
    /\ NotesBeforePhases
    /\ research.pc = "done" =>
          /\ research.status = "resolved"
          /\ Len(research.sources) <= 5
          /\ IsPrefix(research.sources, research.found)
          /\ NotesIssued = AllNotes
          /\ research.log[Len(research.log)] = Progress(3)
          /\ LET sections == SplitSections(Tail(research.answer))
             IN  /\ Len(sections) = Len(research.sources)
                 /\ \A i \in 1..Len(sections) :
                       /\ research.sources[i] \in {sections[i][k] : k \in 1..Len(sections[i])}
                       /\ (research.settled[i] = "rejected")
                             <=> sections[i] = <<"[Failed to scrape", research.sources[i], "]">>
                       /\ (research.settled[i] = "fulfilled")
                             <=> sections[i][1] = "Source:"

\* six URLs were found, five are returned, the second scrape failed and the
\* others succeeded
C39_Witness ==
    /\ research.pc = "done"
    /\ Len(research.found) = 6
    /\ research.sources = <<"u", "v", "v", "u", "v">>
    /\ research.settled = <<"fulfilled", "rejected", "fulfilled", "fulfilled", "fulfilled">>


====
